---------------------------- MODULE Spec2Model ----------------------------
(***************************************************************************)
(* A model of the SVRF-to-PXL translator prototype                         *)
(* (src/mini_translator_prototype.py): the regex-based parser SVRFParser,  *)
(* the intermediate representation it builds (layers, rules) and the       *)
(* PXLGenerator that renders it.                                           *)
(*                                                                         *)
(* Text is modelled character by character: a string is the sequence of   *)
(* the code points of its characters, so that substring tests, splits,     *)
(* strips, comparisons and the regular expressions of the parser are       *)
(* computed as the code computes them.  Python's None is the value None    *)
(* below, which no text equals.                                            *)
(***************************************************************************)
EXTENDS Integers, Sequences, FiniteSets, TLC

(***************************************************************************)
(* Characters and character classes (Python's str and re semantics).       *)
(* A character is its code point, ord(c).  ASCII characters are written as *)
(* themselves through Ord and Text; another character is written as its    *)
(* code point in hexadecimal: \h00E9 is e-acute.  The patterns of the code  *)
(* are str patterns without re.ASCII, so \d, \w and \s are the Unicode     *)
(* classes, over every code point of Unicode.                              *)
(***************************************************************************)
\* the printable characters of ASCII from code point 32 on, the grave accent
\* (96) left out
Printable ==
    <<" ", "!", "\"", "#", "$", "%", "&", "'", "(", ")", "*", "+", ",", "-",
      ".", "/", "0", "1", "2", "3", "4", "5", "6", "7", "8", "9", ":", ";",
      "<", "=", ">", "?", "@", "A", "B", "C", "D", "E", "F", "G", "H", "I",
      "J", "K", "L", "M", "N", "O", "P", "Q", "R", "S", "T", "U", "V", "W",
      "X", "Y", "Z", "[", "\\", "]", "^", "_", "a", "b", "c", "d", "e", "f",
      "g", "h", "i", "j", "k", "l", "m", "n", "o", "p", "q", "r", "s", "t",
      "u", "v", "w", "x", "y", "z", "{", "|", "}", "~">>

\* ord(c) for a character of ASCII written as a one-character string
Ord(c) ==
    CASE c = "\t" -> 9 [] c = "\n" -> 10 [] c = "\f" -> 12 [] c = "\r" -> 13
      [] OTHER -> LET k == CHOOSE j \in DOMAIN Printable : Printable[j] = c
                  IN  IF k <= 64 THEN 31 + k ELSE 32 + k

\* a text, given as the sequence of its characters
Text(s) == [k \in DOMAIN s |-> Ord(s[k])]

NL == Ord("\n")
SP == Ord(" ")
\* None is no text: a text holds code points, which are not negative
None == <<-1>>

\* the ranges <<first, last>> of the code points above ASCII that \w matches
\* (str.isalnum() holds of them)
WordRanges ==
    {
      <<\h00AA, \h00AA>>, <<\h00B2, \h00B3>>, <<\h00B5, \h00B5>>,
      <<\h00B9, \h00BA>>, <<\h00BC, \h00BE>>, <<\h00C0, \h00D6>>,
      <<\h00D8, \h00F6>>, <<\h00F8, \h02C1>>, <<\h02C6, \h02D1>>,
      <<\h02E0, \h02E4>>, <<\h02EC, \h02EC>>, <<\h02EE, \h02EE>>,
      <<\h0370, \h0374>>, <<\h0376, \h0377>>, <<\h037A, \h037D>>,
      <<\h037F, \h037F>>, <<\h0386, \h0386>>, <<\h0388, \h038A>>,
      <<\h038C, \h038C>>, <<\h038E, \h03A1>>, <<\h03A3, \h03F5>>,
      <<\h03F7, \h0481>>, <<\h048A, \h052F>>, <<\h0531, \h0556>>,
      <<\h0559, \h0559>>, <<\h0560, \h0588>>, <<\h05D0, \h05EA>>,
      <<\h05EF, \h05F2>>, <<\h0620, \h064A>>, <<\h0660, \h0669>>,
      <<\h066E, \h066F>>, <<\h0671, \h06D3>>, <<\h06D5, \h06D5>>,
      <<\h06E5, \h06E6>>, <<\h06EE, \h06FC>>, <<\h06FF, \h06FF>>,
      <<\h0710, \h0710>>, <<\h0712, \h072F>>, <<\h074D, \h07A5>>,
      <<\h07B1, \h07B1>>, <<\h07C0, \h07EA>>, <<\h07F4, \h07F5>>,
      <<\h07FA, \h07FA>>, <<\h0800, \h0815>>, <<\h081A, \h081A>>,
      <<\h0824, \h0824>>, <<\h0828, \h0828>>, <<\h0840, \h0858>>,
      <<\h0860, \h086A>>, <<\h0870, \h0887>>, <<\h0889, \h088E>>,
      <<\h08A0, \h08C9>>, <<\h0904, \h0939>>, <<\h093D, \h093D>>,
      <<\h0950, \h0950>>, <<\h0958, \h0961>>, <<\h0966, \h096F>>,
      <<\h0971, \h0980>>, <<\h0985, \h098C>>, <<\h098F, \h0990>>,
      <<\h0993, \h09A8>>, <<\h09AA, \h09B0>>, <<\h09B2, \h09B2>>,
      <<\h09B6, \h09B9>>, <<\h09BD, \h09BD>>, <<\h09CE, \h09CE>>,
      <<\h09DC, \h09DD>>, <<\h09DF, \h09E1>>, <<\h09E6, \h09F1>>,
      <<\h09F4, \h09F9>>, <<\h09FC, \h09FC>>, <<\h0A05, \h0A0A>>,
      <<\h0A0F, \h0A10>>, <<\h0A13, \h0A28>>, <<\h0A2A, \h0A30>>,
      <<\h0A32, \h0A33>>, <<\h0A35, \h0A36>>, <<\h0A38, \h0A39>>,
      <<\h0A59, \h0A5C>>, <<\h0A5E, \h0A5E>>, <<\h0A66, \h0A6F>>,
      <<\h0A72, \h0A74>>, <<\h0A85, \h0A8D>>, <<\h0A8F, \h0A91>>,
      <<\h0A93, \h0AA8>>, <<\h0AAA, \h0AB0>>, <<\h0AB2, \h0AB3>>,
      <<\h0AB5, \h0AB9>>, <<\h0ABD, \h0ABD>>, <<\h0AD0, \h0AD0>>,
      <<\h0AE0, \h0AE1>>, <<\h0AE6, \h0AEF>>, <<\h0AF9, \h0AF9>>,
      <<\h0B05, \h0B0C>>, <<\h0B0F, \h0B10>>, <<\h0B13, \h0B28>>,
      <<\h0B2A, \h0B30>>, <<\h0B32, \h0B33>>, <<\h0B35, \h0B39>>,
      <<\h0B3D, \h0B3D>>, <<\h0B5C, \h0B5D>>, <<\h0B5F, \h0B61>>,
      <<\h0B66, \h0B6F>>, <<\h0B71, \h0B77>>, <<\h0B83, \h0B83>>,
      <<\h0B85, \h0B8A>>, <<\h0B8E, \h0B90>>, <<\h0B92, \h0B95>>,
      <<\h0B99, \h0B9A>>, <<\h0B9C, \h0B9C>>, <<\h0B9E, \h0B9F>>,
      <<\h0BA3, \h0BA4>>, <<\h0BA8, \h0BAA>>, <<\h0BAE, \h0BB9>>,
      <<\h0BD0, \h0BD0>>, <<\h0BE6, \h0BF2>>, <<\h0C05, \h0C0C>>,
      <<\h0C0E, \h0C10>>, <<\h0C12, \h0C28>>, <<\h0C2A, \h0C39>>,
      <<\h0C3D, \h0C3D>>, <<\h0C58, \h0C5A>>, <<\h0C5D, \h0C5D>>,
      <<\h0C60, \h0C61>>, <<\h0C66, \h0C6F>>, <<\h0C78, \h0C7E>>,
      <<\h0C80, \h0C80>>, <<\h0C85, \h0C8C>>, <<\h0C8E, \h0C90>>,
      <<\h0C92, \h0CA8>>, <<\h0CAA, \h0CB3>>, <<\h0CB5, \h0CB9>>,
      <<\h0CBD, \h0CBD>>, <<\h0CDD, \h0CDE>>, <<\h0CE0, \h0CE1>>,
      <<\h0CE6, \h0CEF>>, <<\h0CF1, \h0CF2>>, <<\h0D04, \h0D0C>>,
      <<\h0D0E, \h0D10>>, <<\h0D12, \h0D3A>>, <<\h0D3D, \h0D3D>>,
      <<\h0D4E, \h0D4E>>, <<\h0D54, \h0D56>>, <<\h0D58, \h0D61>>,
      <<\h0D66, \h0D78>>, <<\h0D7A, \h0D7F>>, <<\h0D85, \h0D96>>,
      <<\h0D9A, \h0DB1>>, <<\h0DB3, \h0DBB>>, <<\h0DBD, \h0DBD>>,
      <<\h0DC0, \h0DC6>>, <<\h0DE6, \h0DEF>>, <<\h0E01, \h0E30>>,
      <<\h0E32, \h0E33>>, <<\h0E40, \h0E46>>, <<\h0E50, \h0E59>>,
      <<\h0E81, \h0E82>>, <<\h0E84, \h0E84>>, <<\h0E86, \h0E8A>>,
      <<\h0E8C, \h0EA3>>, <<\h0EA5, \h0EA5>>, <<\h0EA7, \h0EB0>>,
      <<\h0EB2, \h0EB3>>, <<\h0EBD, \h0EBD>>, <<\h0EC0, \h0EC4>>,
      <<\h0EC6, \h0EC6>>, <<\h0ED0, \h0ED9>>, <<\h0EDC, \h0EDF>>,
      <<\h0F00, \h0F00>>, <<\h0F20, \h0F33>>, <<\h0F40, \h0F47>>,
      <<\h0F49, \h0F6C>>, <<\h0F88, \h0F8C>>, <<\h1000, \h102A>>,
      <<\h103F, \h1049>>, <<\h1050, \h1055>>, <<\h105A, \h105D>>,
      <<\h1061, \h1061>>, <<\h1065, \h1066>>, <<\h106E, \h1070>>,
      <<\h1075, \h1081>>, <<\h108E, \h108E>>, <<\h1090, \h1099>>,
      <<\h10A0, \h10C5>>, <<\h10C7, \h10C7>>, <<\h10CD, \h10CD>>,
      <<\h10D0, \h10FA>>, <<\h10FC, \h1248>>, <<\h124A, \h124D>>,
      <<\h1250, \h1256>>, <<\h1258, \h1258>>, <<\h125A, \h125D>>,
      <<\h1260, \h1288>>, <<\h128A, \h128D>>, <<\h1290, \h12B0>>,
      <<\h12B2, \h12B5>>, <<\h12B8, \h12BE>>, <<\h12C0, \h12C0>>,
      <<\h12C2, \h12C5>>, <<\h12C8, \h12D6>>, <<\h12D8, \h1310>>,
      <<\h1312, \h1315>>, <<\h1318, \h135A>>, <<\h1369, \h137C>>,
      <<\h1380, \h138F>>, <<\h13A0, \h13F5>>, <<\h13F8, \h13FD>>,
      <<\h1401, \h166C>>, <<\h166F, \h167F>>, <<\h1681, \h169A>>,
      <<\h16A0, \h16EA>>, <<\h16EE, \h16F8>>, <<\h1700, \h1711>>,
      <<\h171F, \h1731>>, <<\h1740, \h1751>>, <<\h1760, \h176C>>,
      <<\h176E, \h1770>>, <<\h1780, \h17B3>>, <<\h17D7, \h17D7>>,
      <<\h17DC, \h17DC>>, <<\h17E0, \h17E9>>, <<\h17F0, \h17F9>>,
      <<\h1810, \h1819>>, <<\h1820, \h1878>>, <<\h1880, \h1884>>,
      <<\h1887, \h18A8>>, <<\h18AA, \h18AA>>, <<\h18B0, \h18F5>>,
      <<\h1900, \h191E>>, <<\h1946, \h196D>>, <<\h1970, \h1974>>,
      <<\h1980, \h19AB>>, <<\h19B0, \h19C9>>, <<\h19D0, \h19DA>>,
      <<\h1A00, \h1A16>>, <<\h1A20, \h1A54>>, <<\h1A80, \h1A89>>,
      <<\h1A90, \h1A99>>, <<\h1AA7, \h1AA7>>, <<\h1B05, \h1B33>>,
      <<\h1B45, \h1B4C>>, <<\h1B50, \h1B59>>, <<\h1B83, \h1BA0>>,
      <<\h1BAE, \h1BE5>>, <<\h1C00, \h1C23>>, <<\h1C40, \h1C49>>,
      <<\h1C4D, \h1C7D>>, <<\h1C80, \h1C88>>, <<\h1C90, \h1CBA>>,
      <<\h1CBD, \h1CBF>>, <<\h1CE9, \h1CEC>>, <<\h1CEE, \h1CF3>>,
      <<\h1CF5, \h1CF6>>, <<\h1CFA, \h1CFA>>, <<\h1D00, \h1DBF>>,
      <<\h1E00, \h1F15>>, <<\h1F18, \h1F1D>>, <<\h1F20, \h1F45>>,
      <<\h1F48, \h1F4D>>, <<\h1F50, \h1F57>>, <<\h1F59, \h1F59>>,
      <<\h1F5B, \h1F5B>>, <<\h1F5D, \h1F5D>>, <<\h1F5F, \h1F7D>>,
      <<\h1F80, \h1FB4>>, <<\h1FB6, \h1FBC>>, <<\h1FBE, \h1FBE>>,
      <<\h1FC2, \h1FC4>>, <<\h1FC6, \h1FCC>>, <<\h1FD0, \h1FD3>>,
      <<\h1FD6, \h1FDB>>, <<\h1FE0, \h1FEC>>, <<\h1FF2, \h1FF4>>,
      <<\h1FF6, \h1FFC>>, <<\h2070, \h2071>>, <<\h2074, \h2079>>,
      <<\h207F, \h2089>>, <<\h2090, \h209C>>, <<\h2102, \h2102>>,
      <<\h2107, \h2107>>, <<\h210A, \h2113>>, <<\h2115, \h2115>>,
      <<\h2119, \h211D>>, <<\h2124, \h2124>>, <<\h2126, \h2126>>,
      <<\h2128, \h2128>>, <<\h212A, \h212D>>, <<\h212F, \h2139>>,
      <<\h213C, \h213F>>, <<\h2145, \h2149>>, <<\h214E, \h214E>>,
      <<\h2150, \h2189>>, <<\h2460, \h249B>>, <<\h24EA, \h24FF>>,
      <<\h2776, \h2793>>, <<\h2C00, \h2CE4>>, <<\h2CEB, \h2CEE>>,
      <<\h2CF2, \h2CF3>>, <<\h2CFD, \h2CFD>>, <<\h2D00, \h2D25>>,
      <<\h2D27, \h2D27>>, <<\h2D2D, \h2D2D>>, <<\h2D30, \h2D67>>,
      <<\h2D6F, \h2D6F>>, <<\h2D80, \h2D96>>, <<\h2DA0, \h2DA6>>,
      <<\h2DA8, \h2DAE>>, <<\h2DB0, \h2DB6>>, <<\h2DB8, \h2DBE>>,
      <<\h2DC0, \h2DC6>>, <<\h2DC8, \h2DCE>>, <<\h2DD0, \h2DD6>>,
      <<\h2DD8, \h2DDE>>, <<\h2E2F, \h2E2F>>, <<\h3005, \h3007>>,
      <<\h3021, \h3029>>, <<\h3031, \h3035>>, <<\h3038, \h303C>>,
      <<\h3041, \h3096>>, <<\h309D, \h309F>>, <<\h30A1, \h30FA>>,
      <<\h30FC, \h30FF>>, <<\h3105, \h312F>>, <<\h3131, \h318E>>,
      <<\h3192, \h3195>>, <<\h31A0, \h31BF>>, <<\h31F0, \h31FF>>,
      <<\h3220, \h3229>>, <<\h3248, \h324F>>, <<\h3251, \h325F>>,
      <<\h3280, \h3289>>, <<\h32B1, \h32BF>>, <<\h3400, \h4DBF>>,
      <<\h4E00, \hA48C>>, <<\hA4D0, \hA4FD>>, <<\hA500, \hA60C>>,
      <<\hA610, \hA62B>>, <<\hA640, \hA66E>>, <<\hA67F, \hA69D>>,
      <<\hA6A0, \hA6EF>>, <<\hA717, \hA71F>>, <<\hA722, \hA788>>,
      <<\hA78B, \hA7CA>>, <<\hA7D0, \hA7D1>>, <<\hA7D3, \hA7D3>>,
      <<\hA7D5, \hA7D9>>, <<\hA7F2, \hA801>>, <<\hA803, \hA805>>,
      <<\hA807, \hA80A>>, <<\hA80C, \hA822>>, <<\hA830, \hA835>>,
      <<\hA840, \hA873>>, <<\hA882, \hA8B3>>, <<\hA8D0, \hA8D9>>,
      <<\hA8F2, \hA8F7>>, <<\hA8FB, \hA8FB>>, <<\hA8FD, \hA8FE>>,
      <<\hA900, \hA925>>, <<\hA930, \hA946>>, <<\hA960, \hA97C>>,
      <<\hA984, \hA9B2>>, <<\hA9CF, \hA9D9>>, <<\hA9E0, \hA9E4>>,
      <<\hA9E6, \hA9FE>>, <<\hAA00, \hAA28>>, <<\hAA40, \hAA42>>,
      <<\hAA44, \hAA4B>>, <<\hAA50, \hAA59>>, <<\hAA60, \hAA76>>,
      <<\hAA7A, \hAA7A>>, <<\hAA7E, \hAAAF>>, <<\hAAB1, \hAAB1>>,
      <<\hAAB5, \hAAB6>>, <<\hAAB9, \hAABD>>, <<\hAAC0, \hAAC0>>,
      <<\hAAC2, \hAAC2>>, <<\hAADB, \hAADD>>, <<\hAAE0, \hAAEA>>,
      <<\hAAF2, \hAAF4>>, <<\hAB01, \hAB06>>, <<\hAB09, \hAB0E>>,
      <<\hAB11, \hAB16>>, <<\hAB20, \hAB26>>, <<\hAB28, \hAB2E>>,
      <<\hAB30, \hAB5A>>, <<\hAB5C, \hAB69>>, <<\hAB70, \hABE2>>,
      <<\hABF0, \hABF9>>, <<\hAC00, \hD7A3>>, <<\hD7B0, \hD7C6>>,
      <<\hD7CB, \hD7FB>>, <<\hF900, \hFA6D>>, <<\hFA70, \hFAD9>>,
      <<\hFB00, \hFB06>>, <<\hFB13, \hFB17>>, <<\hFB1D, \hFB1D>>,
      <<\hFB1F, \hFB28>>, <<\hFB2A, \hFB36>>, <<\hFB38, \hFB3C>>,
      <<\hFB3E, \hFB3E>>, <<\hFB40, \hFB41>>, <<\hFB43, \hFB44>>,
      <<\hFB46, \hFBB1>>, <<\hFBD3, \hFD3D>>, <<\hFD50, \hFD8F>>,
      <<\hFD92, \hFDC7>>, <<\hFDF0, \hFDFB>>, <<\hFE70, \hFE74>>,
      <<\hFE76, \hFEFC>>, <<\hFF10, \hFF19>>, <<\hFF21, \hFF3A>>,
      <<\hFF41, \hFF5A>>, <<\hFF66, \hFFBE>>, <<\hFFC2, \hFFC7>>,
      <<\hFFCA, \hFFCF>>, <<\hFFD2, \hFFD7>>, <<\hFFDA, \hFFDC>>,
      <<\h10000, \h1000B>>, <<\h1000D, \h10026>>, <<\h10028, \h1003A>>,
      <<\h1003C, \h1003D>>, <<\h1003F, \h1004D>>, <<\h10050, \h1005D>>,
      <<\h10080, \h100FA>>, <<\h10107, \h10133>>, <<\h10140, \h10178>>,
      <<\h1018A, \h1018B>>, <<\h10280, \h1029C>>, <<\h102A0, \h102D0>>,
      <<\h102E1, \h102FB>>, <<\h10300, \h10323>>, <<\h1032D, \h1034A>>,
      <<\h10350, \h10375>>, <<\h10380, \h1039D>>, <<\h103A0, \h103C3>>,
      <<\h103C8, \h103CF>>, <<\h103D1, \h103D5>>, <<\h10400, \h1049D>>,
      <<\h104A0, \h104A9>>, <<\h104B0, \h104D3>>, <<\h104D8, \h104FB>>,
      <<\h10500, \h10527>>, <<\h10530, \h10563>>, <<\h10570, \h1057A>>,
      <<\h1057C, \h1058A>>, <<\h1058C, \h10592>>, <<\h10594, \h10595>>,
      <<\h10597, \h105A1>>, <<\h105A3, \h105B1>>, <<\h105B3, \h105B9>>,
      <<\h105BB, \h105BC>>, <<\h10600, \h10736>>, <<\h10740, \h10755>>,
      <<\h10760, \h10767>>, <<\h10780, \h10785>>, <<\h10787, \h107B0>>,
      <<\h107B2, \h107BA>>, <<\h10800, \h10805>>, <<\h10808, \h10808>>,
      <<\h1080A, \h10835>>, <<\h10837, \h10838>>, <<\h1083C, \h1083C>>,
      <<\h1083F, \h10855>>, <<\h10858, \h10876>>, <<\h10879, \h1089E>>,
      <<\h108A7, \h108AF>>, <<\h108E0, \h108F2>>, <<\h108F4, \h108F5>>,
      <<\h108FB, \h1091B>>, <<\h10920, \h10939>>, <<\h10980, \h109B7>>,
      <<\h109BC, \h109CF>>, <<\h109D2, \h10A00>>, <<\h10A10, \h10A13>>,
      <<\h10A15, \h10A17>>, <<\h10A19, \h10A35>>, <<\h10A40, \h10A48>>,
      <<\h10A60, \h10A7E>>, <<\h10A80, \h10A9F>>, <<\h10AC0, \h10AC7>>,
      <<\h10AC9, \h10AE4>>, <<\h10AEB, \h10AEF>>, <<\h10B00, \h10B35>>,
      <<\h10B40, \h10B55>>, <<\h10B58, \h10B72>>, <<\h10B78, \h10B91>>,
      <<\h10BA9, \h10BAF>>, <<\h10C00, \h10C48>>, <<\h10C80, \h10CB2>>,
      <<\h10CC0, \h10CF2>>, <<\h10CFA, \h10D23>>, <<\h10D30, \h10D39>>,
      <<\h10E60, \h10E7E>>, <<\h10E80, \h10EA9>>, <<\h10EB0, \h10EB1>>,
      <<\h10F00, \h10F27>>, <<\h10F30, \h10F45>>, <<\h10F51, \h10F54>>,
      <<\h10F70, \h10F81>>, <<\h10FB0, \h10FCB>>, <<\h10FE0, \h10FF6>>,
      <<\h11003, \h11037>>, <<\h11052, \h1106F>>, <<\h11071, \h11072>>,
      <<\h11075, \h11075>>, <<\h11083, \h110AF>>, <<\h110D0, \h110E8>>,
      <<\h110F0, \h110F9>>, <<\h11103, \h11126>>, <<\h11136, \h1113F>>,
      <<\h11144, \h11144>>, <<\h11147, \h11147>>, <<\h11150, \h11172>>,
      <<\h11176, \h11176>>, <<\h11183, \h111B2>>, <<\h111C1, \h111C4>>,
      <<\h111D0, \h111DA>>, <<\h111DC, \h111DC>>, <<\h111E1, \h111F4>>,
      <<\h11200, \h11211>>, <<\h11213, \h1122B>>, <<\h11280, \h11286>>,
      <<\h11288, \h11288>>, <<\h1128A, \h1128D>>, <<\h1128F, \h1129D>>,
      <<\h1129F, \h112A8>>, <<\h112B0, \h112DE>>, <<\h112F0, \h112F9>>,
      <<\h11305, \h1130C>>, <<\h1130F, \h11310>>, <<\h11313, \h11328>>,
      <<\h1132A, \h11330>>, <<\h11332, \h11333>>, <<\h11335, \h11339>>,
      <<\h1133D, \h1133D>>, <<\h11350, \h11350>>, <<\h1135D, \h11361>>,
      <<\h11400, \h11434>>, <<\h11447, \h1144A>>, <<\h11450, \h11459>>,
      <<\h1145F, \h11461>>, <<\h11480, \h114AF>>, <<\h114C4, \h114C5>>,
      <<\h114C7, \h114C7>>, <<\h114D0, \h114D9>>, <<\h11580, \h115AE>>,
      <<\h115D8, \h115DB>>, <<\h11600, \h1162F>>, <<\h11644, \h11644>>,
      <<\h11650, \h11659>>, <<\h11680, \h116AA>>, <<\h116B8, \h116B8>>,
      <<\h116C0, \h116C9>>, <<\h11700, \h1171A>>, <<\h11730, \h1173B>>,
      <<\h11740, \h11746>>, <<\h11800, \h1182B>>, <<\h118A0, \h118F2>>,
      <<\h118FF, \h11906>>, <<\h11909, \h11909>>, <<\h1190C, \h11913>>,
      <<\h11915, \h11916>>, <<\h11918, \h1192F>>, <<\h1193F, \h1193F>>,
      <<\h11941, \h11941>>, <<\h11950, \h11959>>, <<\h119A0, \h119A7>>,
      <<\h119AA, \h119D0>>, <<\h119E1, \h119E1>>, <<\h119E3, \h119E3>>,
      <<\h11A00, \h11A00>>, <<\h11A0B, \h11A32>>, <<\h11A3A, \h11A3A>>,
      <<\h11A50, \h11A50>>, <<\h11A5C, \h11A89>>, <<\h11A9D, \h11A9D>>,
      <<\h11AB0, \h11AF8>>, <<\h11C00, \h11C08>>, <<\h11C0A, \h11C2E>>,
      <<\h11C40, \h11C40>>, <<\h11C50, \h11C6C>>, <<\h11C72, \h11C8F>>,
      <<\h11D00, \h11D06>>, <<\h11D08, \h11D09>>, <<\h11D0B, \h11D30>>,
      <<\h11D46, \h11D46>>, <<\h11D50, \h11D59>>, <<\h11D60, \h11D65>>,
      <<\h11D67, \h11D68>>, <<\h11D6A, \h11D89>>, <<\h11D98, \h11D98>>,
      <<\h11DA0, \h11DA9>>, <<\h11EE0, \h11EF2>>, <<\h11FB0, \h11FB0>>,
      <<\h11FC0, \h11FD4>>, <<\h12000, \h12399>>, <<\h12400, \h1246E>>,
      <<\h12480, \h12543>>, <<\h12F90, \h12FF0>>, <<\h13000, \h1342E>>,
      <<\h14400, \h14646>>, <<\h16800, \h16A38>>, <<\h16A40, \h16A5E>>,
      <<\h16A60, \h16A69>>, <<\h16A70, \h16ABE>>, <<\h16AC0, \h16AC9>>,
      <<\h16AD0, \h16AED>>, <<\h16B00, \h16B2F>>, <<\h16B40, \h16B43>>,
      <<\h16B50, \h16B59>>, <<\h16B5B, \h16B61>>, <<\h16B63, \h16B77>>,
      <<\h16B7D, \h16B8F>>, <<\h16E40, \h16E96>>, <<\h16F00, \h16F4A>>,
      <<\h16F50, \h16F50>>, <<\h16F93, \h16F9F>>, <<\h16FE0, \h16FE1>>,
      <<\h16FE3, \h16FE3>>, <<\h17000, \h187F7>>, <<\h18800, \h18CD5>>,
      <<\h18D00, \h18D08>>, <<\h1AFF0, \h1AFF3>>, <<\h1AFF5, \h1AFFB>>,
      <<\h1AFFD, \h1AFFE>>, <<\h1B000, \h1B122>>, <<\h1B150, \h1B152>>,
      <<\h1B164, \h1B167>>, <<\h1B170, \h1B2FB>>, <<\h1BC00, \h1BC6A>>,
      <<\h1BC70, \h1BC7C>>, <<\h1BC80, \h1BC88>>, <<\h1BC90, \h1BC99>>,
      <<\h1D2E0, \h1D2F3>>, <<\h1D360, \h1D378>>, <<\h1D400, \h1D454>>,
      <<\h1D456, \h1D49C>>, <<\h1D49E, \h1D49F>>, <<\h1D4A2, \h1D4A2>>,
      <<\h1D4A5, \h1D4A6>>, <<\h1D4A9, \h1D4AC>>, <<\h1D4AE, \h1D4B9>>,
      <<\h1D4BB, \h1D4BB>>, <<\h1D4BD, \h1D4C3>>, <<\h1D4C5, \h1D505>>,
      <<\h1D507, \h1D50A>>, <<\h1D50D, \h1D514>>, <<\h1D516, \h1D51C>>,
      <<\h1D51E, \h1D539>>, <<\h1D53B, \h1D53E>>, <<\h1D540, \h1D544>>,
      <<\h1D546, \h1D546>>, <<\h1D54A, \h1D550>>, <<\h1D552, \h1D6A5>>,
      <<\h1D6A8, \h1D6C0>>, <<\h1D6C2, \h1D6DA>>, <<\h1D6DC, \h1D6FA>>,
      <<\h1D6FC, \h1D714>>, <<\h1D716, \h1D734>>, <<\h1D736, \h1D74E>>,
      <<\h1D750, \h1D76E>>, <<\h1D770, \h1D788>>, <<\h1D78A, \h1D7A8>>,
      <<\h1D7AA, \h1D7C2>>, <<\h1D7C4, \h1D7CB>>, <<\h1D7CE, \h1D7FF>>,
      <<\h1DF00, \h1DF1E>>, <<\h1E100, \h1E12C>>, <<\h1E137, \h1E13D>>,
      <<\h1E140, \h1E149>>, <<\h1E14E, \h1E14E>>, <<\h1E290, \h1E2AD>>,
      <<\h1E2C0, \h1E2EB>>, <<\h1E2F0, \h1E2F9>>, <<\h1E7E0, \h1E7E6>>,
      <<\h1E7E8, \h1E7EB>>, <<\h1E7ED, \h1E7EE>>, <<\h1E7F0, \h1E7FE>>,
      <<\h1E800, \h1E8C4>>, <<\h1E8C7, \h1E8CF>>, <<\h1E900, \h1E943>>,
      <<\h1E94B, \h1E94B>>, <<\h1E950, \h1E959>>, <<\h1EC71, \h1ECAB>>,
      <<\h1ECAD, \h1ECAF>>, <<\h1ECB1, \h1ECB4>>, <<\h1ED01, \h1ED2D>>,
      <<\h1ED2F, \h1ED3D>>, <<\h1EE00, \h1EE03>>, <<\h1EE05, \h1EE1F>>,
      <<\h1EE21, \h1EE22>>, <<\h1EE24, \h1EE24>>, <<\h1EE27, \h1EE27>>,
      <<\h1EE29, \h1EE32>>, <<\h1EE34, \h1EE37>>, <<\h1EE39, \h1EE39>>,
      <<\h1EE3B, \h1EE3B>>, <<\h1EE42, \h1EE42>>, <<\h1EE47, \h1EE47>>,
      <<\h1EE49, \h1EE49>>, <<\h1EE4B, \h1EE4B>>, <<\h1EE4D, \h1EE4F>>,
      <<\h1EE51, \h1EE52>>, <<\h1EE54, \h1EE54>>, <<\h1EE57, \h1EE57>>,
      <<\h1EE59, \h1EE59>>, <<\h1EE5B, \h1EE5B>>, <<\h1EE5D, \h1EE5D>>,
      <<\h1EE5F, \h1EE5F>>, <<\h1EE61, \h1EE62>>, <<\h1EE64, \h1EE64>>,
      <<\h1EE67, \h1EE6A>>, <<\h1EE6C, \h1EE72>>, <<\h1EE74, \h1EE77>>,
      <<\h1EE79, \h1EE7C>>, <<\h1EE7E, \h1EE7E>>, <<\h1EE80, \h1EE89>>,
      <<\h1EE8B, \h1EE9B>>, <<\h1EEA1, \h1EEA3>>, <<\h1EEA5, \h1EEA9>>,
      <<\h1EEAB, \h1EEBB>>, <<\h1F100, \h1F10C>>, <<\h1FBF0, \h1FBF9>>,
      <<\h20000, \h2A6DF>>, <<\h2A700, \h2B738>>, <<\h2B740, \h2B81D>>,
      <<\h2B820, \h2CEA1>>, <<\h2CEB0, \h2EBE0>>, <<\h2F800, \h2FA1D>>,
      <<\h30000, \h3134A>> }
\* the digit zero of every script of decimal digits (category Nd): the
\* digits of a script are its zero and the nine code points after it
DigitZeros ==
    {
      \h0030, \h0660, \h06F0, \h07C0, \h0966, \h09E6, \h0A66, \h0AE6,
      \h0B66, \h0BE6, \h0C66, \h0CE6, \h0D66, \h0DE6, \h0E50, \h0ED0,
      \h0F20, \h1040, \h1090, \h17E0, \h1810, \h1946, \h19D0, \h1A80,
      \h1A90, \h1B50, \h1BB0, \h1C40, \h1C50, \hA620, \hA8D0, \hA900,
      \hA9D0, \hA9F0, \hAA50, \hABF0, \hFF10, \h104A0, \h10D30, \h11066,
      \h110F0, \h11136, \h111D0, \h112F0, \h11450, \h114D0, \h11650,
      \h116C0, \h11730, \h118E0, \h11950, \h11C50, \h11D50, \h11DA0,
      \h16A60, \h16AC0, \h16B50, \h1D7CE, \h1D7D8, \h1D7E2, \h1D7EC,
      \h1D7F6, \h1E140, \h1E2F0, \h1E950, \h1FBF0 }
\* A character class is given by its characters of ASCII and by the ranges
\* <<first, last>> of its code points above ASCII.
\* str.isspace(), \s of the re module
SpaceChars ==
    [ascii |-> {\h0009, \h000A, \h000B, \h000C, \h000D, \h001C, \h001D, \h001E,
               \h001F, \h0020},
     above |-> {<<c, c>> : c \in
                  {\h0085, \h00A0, \h1680, \h2000, \h2001, \h2002, \h2003, \h2004,
                   \h2005, \h2006, \h2007, \h2008, \h2009, \h200A, \h2028, \h2029,
                   \h202F, \h205F, \h3000}}]

\* \w of the re module: the letters and digits of ASCII and "_", and the code
\* points above ASCII that str.isalnum() holds of
WordChars ==
    [ascii |-> (\h0030..\h0039) \cup (\h0041..\h005A) \cup {\h005F} \cup (\h0061..\h007A),
     above |-> WordRanges]
\* \d of the re module
Digits ==
    [ascii |-> \h0030..\h0039,
     above |-> {<<z, z + 9>> : z \in DigitZeros}]
chEq == Ord("=")
chAt == Ord("@")
chLBrace == Ord("{")
chRBrace == Ord("}")
chLowerA == Ord("a")
chLowerZ == Ord("z")
\* [<>=!]
OpChars == [ascii |-> {Ord("<"), Ord(">"), chEq, Ord("!")}, above |-> {}]
chDot == Ord(".")
\* [\d.]
NumChars == [ascii |-> Digits.ascii \cup {chDot}, above |-> Digits.above]

(***************************************************************************)
(* str primitives.                                                         *)
(***************************************************************************)
\* s[a:b] of Python with 0 <= a, written with 1-based inclusive positions
Slice(s, from, to) == IF from > to THEN <<>> ELSE SubSeq(s, from, to)

\* s.startswith(p) tested at position pos (1-based)
MatchesAt(s, p, pos) ==
    /\ pos >= 1
    /\ pos + Len(p) - 1 <= Len(s)
    /\ \A k \in 1..Len(p) : s[pos + k - 1] = p[k]

StartsWith(s, p) == MatchesAt(s, p, 1)

IsPrefixOf(p, s) == StartsWith(s, p)

\* the positions at which p occurs in s
Occurrences(s, p) == {pos \in 1..(Len(s) - Len(p) + 1) : MatchesAt(s, p, pos)}

\* p in s
Contains(s, p) == Occurrences(s, p) # {}

Min(S) == CHOOSE x \in S : \A y \in S : x <= y
Max(S) == 0 - Min({0 - x : x \in S})

\* s.find(p) as a 1-based position, 0 when p does not occur
Find(s, p) == IF Contains(s, p) THEN Min(Occurrences(s, p)) ELSE 0

\* s.count(c) for a one-character c
Count(s, c) == Cardinality({k \in 1..Len(s) : s[k] = c})

\* the character c is of the class cls
InClass(c, cls) ==
    IF c < \h0080 THEN c \in cls.ascii
    ELSE \E r \in cls.above : r[1] <= c /\ c <= r[2]

\* the end (1-based, inclusive) of the longest run of characters of class
\* cls that starts at pos; pos - 1 when the run is empty
RunEnd(s, pos, cls) ==
    LET stops == {k \in pos..Len(s) : ~InClass(s[k], cls)}
    IN  IF stops = {} THEN Len(s) ELSE Min(stops) - 1

\* s.strip()
Strip(s) ==
    LET keep == {k \in 1..Len(s) : ~InClass(s[k], SpaceChars)}
    IN  IF keep = {} THEN <<>> ELSE SubSeq(s, Min(keep), Max(keep))

\* s.split(c) for a one-character separator
RECURSIVE Split(_, _)
Split(s, c) ==
    LET pos == Find(s, <<c>>)
    IN  IF pos = 0 THEN <<s>>
        ELSE <<Slice(s, 1, pos - 1)>> \o Split(Slice(s, pos + 1, Len(s)), c)

\* sep.join(parts) for a one-character separator
RECURSIVE Join(_, _)
Join(parts, c) ==
    IF parts = <<>> THEN <<>>
    ELSE IF Len(parts) = 1 THEN parts[1]
    ELSE parts[1] \o <<c>> \o Join(Tail(parts), c)


(***************************************************************************)
(* Literals of the source.                                                 *)
(***************************************************************************)
kwLAYER == Text(<<"L", "A", "Y", "E", "R">>)
kwLAYER_SP == Text(<<"L", "A", "Y", "E", "R", " ">>)
kwWIDTH == Text(<<"W", "I", "D", "T", "H">>)
kwEXTERNAL == Text(<<"E", "X", "T", "E", "R", "N", "A", "L">>)
kwINTERNAL == Text(<<"I", "N", "T", "E", "R", "N", "A", "L">>)
kwENC == Text(<<"E", "N", "C">>)
kwAND == Text(<<"A", "N", "D">>)
kwOR == Text(<<"O", "R">>)
kwNOT == Text(<<"N", "O", "T">>)
txt_slashes == Text(<<"/", "/">>)
txt_copen == Text(<<"/", "*">>)
txt_cclose == Text(<<"*", "/">>)

(***************************************************************************)
(* Conversions: int(), float() and the text an f-string gives them back.   *)
(***************************************************************************)
\* the value int() and float() give a decimal digit
DigitVal(c) == c - Max({z \in DigitZeros : z <= c})

chZero == Ord("0")
DigitChar(d) == chZero + d

\* int(s) raises ValueError when s has more digits than the limit of the
\* conversion (sys.int_info.default_max_str_digits); zeros in front count
MaxIntDigits == 4300
IntRaises(s) == Len(s) > MaxIntDigits

\* the number whose decimal digits, none of them a zero in front, are s
RECURSIVE IntOfDigits(_)
IntOfDigits(s) ==
    IF s = <<>> THEN 0
    ELSE 10 * IntOfDigits(SubSeq(s, 1, Len(s) - 1)) + DigitVal(s[Len(s)])

\* int(s) for a string of decimal digits that int() takes
IntOf(s) ==
    LET nz == {k \in 1..Len(s) : s[k] \notin DigitZeros}
    IN  IF nz = {} THEN 0 ELSE IntOfDigits(SubSeq(s, Min(nz), Len(s)))

\* str(n) for a natural number n
RECURSIVE IntStr(_)
IntStr(n) ==
    IF n < 10 THEN <<DigitChar(n)>>
    ELSE IntStr(n \div 10) \o <<DigitChar(n % 10)>>

\* float(s) for s matched by [\d.]+ raises ValueError unless s holds at
\* most one dot and at least one digit
FloatRaises(s) == Count(s, chDot) > 1 \/ \A k \in 1..Len(s) : s[k] = chDot

(***************************************************************************)
(* float() and the text an f-string prints for a float (repr).  A float is *)
(* an IEEE 754 double: float() rounds the decimal to the nearest double    *)
(* (ties to even), and repr prints the shortest decimal that float() takes *)
(* back to the same double.  The arithmetic is done on naturals of any     *)
(* size, written as sequences of limbs in base 10000, lowest limb first,   *)
(* no zero as highest limb; <<>> is 0.                                     *)
(***************************************************************************)
BigBase == 10000
LimbDigitCount == 4

\* a sequence written as a function, as the tuple it is
Tuple(f) == f \o <<>>

BigTrim(a) ==
    LET nz == {k \in 1..Len(a) : a[k] # 0}
    IN  IF nz = {} THEN <<>> ELSE SubSeq(a, 1, Max(nz))

Limb(a, k) == IF k >= 1 /\ k <= Len(a) THEN a[k] ELSE 0

\* a natural below the cube of the base
BigOfNat(n) ==
    BigTrim(<<n % BigBase, (n \div BigBase) % BigBase, n \div (BigBase * BigBase)>>)

\* a + b.  A carry enters limb k when, of the limbs below it, the highest
\* whose sum is not base - 1 overflows.
CarryInto(a, b, k) ==
    \E j \in 1..(k - 1) :
        /\ Limb(a, j) + Limb(b, j) >= BigBase
        /\ \A x \in (j + 1)..(k - 1) : Limb(a, x) + Limb(b, x) = BigBase - 1

BigAdd(a, b) ==
    IF a = <<>> THEN b
    ELSE IF b = <<>> THEN a
    ELSE BigTrim(Tuple([k \in 1..(Max({Len(a), Len(b)}) + 1) |->
             (Limb(a, k) + Limb(b, k) + (IF CarryInto(a, b, k) THEN 1 ELSE 0)) % BigBase]))

\* a - b for a >= b
BorrowInto(a, b, k) ==
    \E j \in 1..(k - 1) :
        /\ Limb(a, j) < Limb(b, j)
        /\ \A x \in (j + 1)..(k - 1) : Limb(a, x) = Limb(b, x)

BigSub(a, b) ==
    IF b = <<>> THEN a
    ELSE BigTrim(Tuple([k \in 1..Len(a) |->
             (Limb(a, k) - Limb(b, k) - (IF BorrowInto(a, b, k) THEN 1 ELSE 0) + BigBase)
               % BigBase]))

\* a < b, a <= b
BigLess(a, b) ==
    \/ Len(a) < Len(b)
    \/ /\ Len(a) = Len(b)
       /\ \E k \in 1..Len(a) :
              /\ a[k] < b[k]
              /\ \A j \in (k + 1)..Len(a) : a[j] = b[j]

BigLeq(a, b) == ~BigLess(b, a)

\* a * base^n
BigShift(a, n) == IF a = <<>> THEN <<>> ELSE [k \in 1..n |-> 0] \o a

\* a * n for a natural n below the base
BigMulSmall(a, n) ==
    IF a = <<>> \/ n = 0 THEN <<>>
    ELSE BigAdd(BigTrim(Tuple([k \in 1..Len(a) |-> (a[k] * n) % BigBase])),
                BigShift(BigTrim(Tuple([k \in 1..Len(a) |-> (a[k] * n) \div BigBase])), 1))

\* a * b, b's limbs lo..hi only
RECURSIVE BigMulRange(_, _, _, _)
BigMulRange(a, b, lo, hi) ==
    IF lo = hi THEN BigShift(BigMulSmall(a, b[lo]), lo - 1)
    ELSE LET mid == (lo + hi) \div 2
         IN  BigAdd(BigMulRange(a, b, lo, mid), BigMulRange(a, b, mid + 1, hi))

BigMul(a, b) == IF a = <<>> \/ b = <<>> THEN <<>> ELSE BigMulRange(a, b, 1, Len(b))

\* a * 10^n
BigTimesPow10(a, n) == BigShift(BigMulSmall(a, 10 ^ (n % LimbDigitCount)), n \div LimbDigitCount)

BigPow10(n) == BigTimesPow10(<<1>>, n)

RECURSIVE BigPow2(_)
BigPow2(n) ==
    IF n < 13 THEN <<2 ^ n>>
    ELSE LET h == BigPow2(n \div 2)
         IN  BigMulSmall(BigMul(h, h), 2 ^ (n % 2))

\* a * 2^n
BigTimesPow2(a, n) == BigMul(a, BigPow2(n))

\* the number a string of decimal digits writes
BigOfDigits(s) ==
    LET n == Len(s)
        digit(r) == IF r < n THEN DigitVal(s[n - r]) ELSE 0
    IN  BigTrim(Tuple([k \in 1..((n + LimbDigitCount - 1) \div LimbDigitCount) |->
            digit(4 * k - 4) + 10 * digit(4 * k - 3) + 100 * digit(4 * k - 2)
              + 1000 * digit(4 * k - 1)]))

StripLeadingZeros(s) ==
    LET nz == {k \in 1..Len(s) : s[k] # chZero}
    IN  IF nz = {} THEN <<>> ELSE SubSeq(s, Min(nz), Len(s))

StripTrailingZeros(s) ==
    LET nz == {k \in 1..Len(s) : s[k] # chZero}
    IN  IF nz = {} THEN <<>> ELSE SubSeq(s, 1, Max(nz))

\* the decimal digits of a number
BigDigits(a) ==
    StripLeadingZeros(Tuple([k \in 1..(LimbDigitCount * Len(a)) |->
        DigitChar((a[Len(a) - ((k - 1) \div LimbDigitCount)]
                     \div (10 ^ (LimbDigitCount - 1 - ((k - 1) % LimbDigitCount)))) % 10)]))

\* quotient and remainder of num by den, for a quotient below 10^n: long
\* division, one decimal digit of the quotient at a time, q the digits
\* found, p the place of the next and dp = den * 10^p
RECURSIVE BigDivFrom(_, _, _, _)
QuotientDigit(num, dp) ==
    CHOOSE x \in 0..9 :
        /\ BigLeq(BigMulSmall(dp, x), num)
        /\ x = 9 \/ BigLess(num, BigMulSmall(dp, x + 1))

BigDivDigit(num, den, p, q, dp, d) ==
    BigDivFrom(BigSub(num, BigMulSmall(dp, d)), den, p - 1, Append(q, DigitChar(d)))

BigDivStep(num, den, p, q, dp) == BigDivDigit(num, den, p, q, dp, QuotientDigit(num, dp))

BigDivFrom(num, den, p, q) ==
    IF p < 0 THEN [q |-> BigOfDigits(q), r |-> num]
    ELSE BigDivStep(num, den, p, q, BigTimesPow10(den, p))

BigDivMod(num, den, n) == BigDivFrom(num, den, n - 1, <<>>)

BigIsOdd(a) == a # <<>> /\ a[1] % 2 = 1

BigAbsDiff(a, b) == IF BigLess(a, b) THEN BigSub(b, a) ELSE BigSub(a, b)

\* the position of the decimal point of num / den > 0: the p with
\* 10^(p-1) <= num / den < 10^p, which is p0 or p0 + 1 for p0 the
\* difference of the numbers of digits
DecimalPointNear(num, den, p0) ==
    IF p0 >= 0
    THEN (IF BigLess(num, BigTimesPow10(den, p0)) THEN p0 ELSE p0 + 1)
    ELSE (IF BigLess(BigTimesPow10(num, 0 - p0), den) THEN p0 ELSE p0 + 1)

DecimalPoint(num, den) ==
    DecimalPointNear(num, den, Len(BigDigits(num)) - Len(BigDigits(den)))

\* the b with 2^b <= num / den < 2^(b+1), num / den > 0 with its decimal
\* point at p: b lies between (p - 1) * log2(10) and p * log2(10), and
\* 3.321 < log2(10) < 3.322
BinaryExponentFrom(n0, d0, b0, b1) ==
    b0 + (CHOOSE t \in 0..(b1 - b0) :
              /\ BigLeq(BigMulSmall(d0, 2 ^ t), n0)
              /\ BigLess(n0, BigMulSmall(d0, 2 ^ (t + 1))))

BinaryExponent(num, den, p) ==
    LET b0 == ((p - 1) * 3321) \div 1000 - 2
        b1 == (p * 3322) \div 1000 + 2
    IN  IF b0 >= 0 THEN BinaryExponentFrom(num, BigTimesPow2(den, b0), b0, b1)
        ELSE BinaryExponentFrom(BigTimesPow2(num, 0 - b0), den, b0, b1)

\* A double is m * 2^e with m < 2^53; m >= 2^52 unless e = MinExp
\* (subnormal); zero is m = 0, e = 0; infinity is m = 1, e = InfExp.
MantBits == 53
MinExp == -1074
InfExp == 972
MaxDecimalPoint == 309
MinDecimalPoint == -323
Two52 == BigPow2(MantBits - 1)
Two53 == BigPow2(MantBits)
DoubleZero == [m |-> <<>>, e |-> 0]
DoubleInf == [m |-> <<1>>, e |-> InfExp]

\* the double of mantissa m <= 2^53 and exponent e
MakeDouble(m, e) ==
    IF m = <<>> THEN DoubleZero
    ELSE IF m = Two53
    THEN (IF e + 1 >= InfExp THEN DoubleInf ELSE [m |-> Two52, e |-> e + 1])
    ELSE IF e >= InfExp THEN DoubleInf
    ELSE [m |-> m, e |-> e]

\* a quotient with remainder qr.r of a division by dn is rounded up when
\* the remainder is above half of dn, or half of it and the quotient odd
RoundUp(qr, dn) ==
    LET twice == BigMulSmall(qr.r, 2)
    IN  \/ BigLess(dn, twice)
        \/ twice = dn /\ BigIsOdd(qr.q)

RoundedDouble(qr, dn, e) ==
    MakeDouble(IF RoundUp(qr, dn) THEN BigAdd(qr.q, <<1>>) ELSE qr.q, e)

\* the double nearest to n / dn, a quotient below 2^53, times 2^e
NearestQuotient(n, dn, e) == RoundedDouble(BigDivMod(n, dn, 16), dn, e)

NearestWithExponent(num, den, e) ==
    IF e >= 0 THEN NearestQuotient(num, BigTimesPow2(den, e), e)
    ELSE NearestQuotient(BigTimesPow2(num, 0 - e), den, e)

NearestAt(num, den, p) ==
    IF p > MaxDecimalPoint THEN DoubleInf
    ELSE IF p < MinDecimalPoint THEN DoubleZero
    ELSE NearestWithExponent(num, den,
             Max({BinaryExponent(num, den, p) - (MantBits - 1), MinExp}))

\* the double nearest to num / den, ties to the even mantissa
NearestDouble(num, den) ==
    IF num = <<>> THEN DoubleZero ELSE NearestAt(num, den, DecimalPoint(num, den))

\* a double as a fraction
DoubleNum(d) == IF d.e >= 0 THEN BigTimesPow2(d.m, d.e) ELSE d.m
DoubleDen(d) == IF d.e >= 0 THEN <<1>> ELSE BigPow2(0 - d.e)

\* the double nearest to c * 10^x
DoubleOfDecimal(c, x) ==
    NearestDouble(BigTimesPow10(c, Max({x, 0})), BigPow10(Max({0 - x, 0})))

\* repr's digits: the shortest decimal c * 10^(p - k), k digits, that
\* rounds to d, the nearest to d when two of that length do.  The
\* candidate of k digits for d = num / den, or <<>> when none rounds to d
\* (when one of k digits does, one of k + 1 digits does): lo and hi are
\* the decimals of k digits next to d, ok those of them that float() takes
\* back to d
MaxReprDigits == 17

ReprChoice(lo, hi, hi_nearer, ok, k) ==
    IF k = MaxReprDigits \/ ok = {lo, hi} THEN (IF hi_nearer THEN hi ELSE lo)
    ELSE IF lo \in ok THEN lo
    ELSE IF hi \in ok THEN hi
    ELSE <<>>

ReprBetween(d, lo, hi, hi_nearer, x, k) ==
    ReprChoice(lo, hi, hi_nearer, {c \in {lo, hi} : DoubleOfDecimal(c, x) = d}, k)

ReprRounded(d, qr, dn, x, k) ==
    IF qr.r = <<>> THEN qr.q
    ELSE ReprBetween(d, qr.q, BigAdd(qr.q, <<1>>), RoundUp(qr, dn), x, k)

ReprQuotient(d, n, dn, x, k) == ReprRounded(d, BigDivMod(n, dn, k), dn, x, k)

ReprCandidate(d, num, den, p, k) ==
    ReprQuotient(d, BigTimesPow10(num, Max({k - p, 0})),
                 BigTimesPow10(den, Max({p - k, 0})), p - k, k)

\* the candidate c of the least number k of digits that has one, between
\* lo and hi digits; mid digits are tried, c being their candidate
RECURSIVE ReprShortest(_, _, _, _, _, _)
ReprSearch(d, num, den, p, lo, hi, mid, c) ==
    IF c = <<>> THEN ReprShortest(d, num, den, p, mid + 1, hi)
    ELSE IF lo = mid THEN [c |-> c, k |-> mid]
    ELSE ReprShortest(d, num, den, p, lo, mid)

ReprTry(d, num, den, p, lo, hi, mid) ==
    ReprSearch(d, num, den, p, lo, hi, mid, ReprCandidate(d, num, den, p, mid))

ReprShortest(d, num, den, p, lo, hi) ==
    ReprTry(d, num, den, p, lo, hi, (lo + hi) \div 2)

\* [digits, point]: the double is 0.digits * 10^point, digits without
\* trailing zeros
ReprResult(s, p) ==
    LET c == BigDigits(s.c)
    IN  [digits |-> StripTrailingZeros(c), point |-> p - s.k + Len(c)]

ReprAtPoint(d, num, den, p) ==
    ReprResult(ReprShortest(d, num, den, p, 1, MaxReprDigits), p)

ReprOfFraction(d, num, den) == ReprAtPoint(d, num, den, DecimalPoint(num, den))

ReprDigits(d) == ReprOfFraction(d, DoubleNum(d), DoubleDen(d))

Zeros(n) == [k \in 1..n |-> chZero]

\* float_repr_style 'short': exponent notation when the point lies more
\* than 3 places left of the digits or more than 16 places right of the
\* first, the exponent signed and of two digits at least; else positional,
\* with ".0" after a whole number
MinPositionalPoint == -3
MaxPositionalPoint == 16

FormatRepr(digits, point) ==
    IF point < MinPositionalPoint \/ point > MaxPositionalPoint
    THEN LET x == point - 1
             xs == IntStr(IF x < 0 THEN 0 - x ELSE x)
         IN  <<digits[1]>>
             \o (IF Len(digits) > 1 THEN Text(<<".">>) \o Tail(digits) ELSE <<>>)
             \o <<Ord("e"), IF x < 0 THEN Ord("-") ELSE Ord("+")>>
             \o (IF Len(xs) < 2 THEN Text(<<"0">>) ELSE <<>>) \o xs
    ELSE IF point <= 0 THEN Text(<<"0", ".">>) \o Zeros(0 - point) \o digits
    ELSE IF point < Len(digits)
    THEN SubSeq(digits, 1, point) \o Text(<<".">>) \o SubSeq(digits, point + 1, Len(digits))
    ELSE digits \o Zeros(point - Len(digits)) \o Text(<<".", "0">>)

\* a decimal of at most MaxExactDigits significant digits whose point lies
\* within MaxExactPoint places of them is the shortest decimal of its
\* double (DBL_DIG), so that repr prints its own digits
MaxExactDigits == 15
MaxExactPoint == 290

\* repr of a double
ReprFormatted(r) == FormatRepr(r.digits, r.point)

DoubleRepr(d) ==
    IF d = DoubleInf THEN Text(<<"i", "n", "f">>)
    ELSE IF d = DoubleZero THEN Text(<<"0", ".", "0">>)
    ELSE ReprFormatted(ReprDigits(d))

\* repr of float() of 0.sig * 10^point, sig with no zero at either end
FloatRepr(sig, point) ==
    IF sig = <<>> THEN Text(<<"0", ".", "0">>)
    ELSE IF /\ Len(sig) <= MaxExactDigits
            /\ point <= MaxExactPoint /\ point >= 0 - MaxExactPoint
    THEN FormatRepr(sig, point)
    ELSE DoubleRepr(DoubleOfDecimal(BigOfDigits(sig), point - Len(sig)))

\* of the digits before the point (ip) and after it (fp)
FloatOfDigits(all, fraction_len) ==
    FloatRepr(StripTrailingZeros(all), Len(all) - fraction_len)

FloatOfParts(ip, fp) == FloatOfDigits(StripLeadingZeros(ip \o fp), Len(fp))

\* The float is kept as the text Python prints for it (repr, which the
\* f-strings of to_pxl use).  float() reads every decimal digit of Unicode
\* by its value.
FloatOf(s) ==
    LET t   == [k \in 1..Len(s) |-> IF s[k] = chDot THEN chDot ELSE DigitChar(DigitVal(s[k]))]
        dot == Find(s, Text(<<".">>))
    IN  FloatOfParts(IF dot = 0 THEN t ELSE Slice(t, 1, dot - 1),
                     IF dot = 0 THEN <<>> ELSE Slice(t, dot + 1, Len(t)))

(***************************************************************************)
(* The intermediate representation (the dataclasses).                      *)
(***************************************************************************)
LayerDef(name, gds_layer, gds_datatype) ==
    [name |-> name, gds_layer |-> gds_layer, gds_datatype |-> gds_datatype]

WidthCheck(rule_name, layer, operator, value, comment) ==
    [type |-> "WidthCheck", rule_name |-> rule_name, layer |-> layer,
     operator |-> operator, value |-> value, comment |-> comment]

SpacingCheck(rule_name, layer, operator, value, comment) ==
    [type |-> "SpacingCheck", rule_name |-> rule_name, layer |-> layer,
     operator |-> operator, value |-> value, comment |-> comment]

EnclosureCheck(rule_name, outer_layer, inner_layer, operator, value, comment) ==
    [type |-> "EnclosureCheck", rule_name |-> rule_name,
     outer_layer |-> outer_layer, inner_layer |-> inner_layer,
     operator |-> operator, value |-> value, comment |-> comment]

BooleanOp(result_name, operation, layer1, layer2, comment) ==
    [type |-> "BooleanOp", result_name |-> result_name, operation |-> operation,
     layer1 |-> layer1, layer2 |-> layer2, comment |-> comment]

(***************************************************************************)
(* SVRFParser: the comment stripper and the regular expressions.           *)
(***************************************************************************)
\* re.sub(r'/\*.*?\*/', '', content, flags=re.DOTALL): the leftmost "/*"
\* and the first "*/" after it are removed with all between them, again
\* and again; a "/*" that is never closed stays
RECURSIVE StripBlockComments(_)
StripBlockComments(content) ==
    LET open == Find(content, txt_copen)
        rest == Slice(content, open + 2, Len(content))
        close == Find(rest, txt_cclose)
    IN  IF open = 0 \/ close = 0 THEN content
        ELSE Slice(content, 1, open - 1)
             \o StripBlockComments(Slice(rest, close + 2, Len(rest)))

\* re.match(r'LAYER\s+(\w+)\s+(\d+)(?:\s+(\d+))?', line).  The character
\* classes that follow one another are disjoint, so the only way the
\* pattern matches is with every run taken whole.
LayerMatch(line) ==
    LET a  == Len(kwLAYER) + 1
        s1 == RunEnd(line, a, SpaceChars)
        w  == RunEnd(line, s1 + 1, WordChars)
        s2 == RunEnd(line, w + 1, SpaceChars)
        d1 == RunEnd(line, s2 + 1, Digits)
        s3 == RunEnd(line, d1 + 1, SpaceChars)
        d2 == RunEnd(line, s3 + 1, Digits)
        ok == /\ StartsWith(line, kwLAYER)
              /\ s1 >= a /\ w > s1 /\ s2 > w /\ d1 > s2
    IN  IF ~ok THEN [matched |-> FALSE]
        ELSE [matched |-> TRUE,
              g1 |-> SubSeq(line, s1 + 1, w),
              g2 |-> SubSeq(line, s2 + 1, d1),
              g3 |-> IF s3 > d1 /\ d2 > s3 THEN SubSeq(line, s3 + 1, d2) ELSE None]

\* kw\s+(\w+)\s*([<>=!]+)\s*([\d.]+) tried at position pos of block
CheckMatchAt(block, kw, pos) ==
    LET a  == pos + Len(kw)
        s1 == RunEnd(block, a, SpaceChars)
        w  == RunEnd(block, s1 + 1, WordChars)
        s2 == RunEnd(block, w + 1, SpaceChars)
        o  == RunEnd(block, s2 + 1, OpChars)
        s3 == RunEnd(block, o + 1, SpaceChars)
        n  == RunEnd(block, s3 + 1, NumChars)
        ok == /\ MatchesAt(block, kw, pos)
              /\ s1 >= a /\ w > s1 /\ o > s2 /\ n > s3
    IN  IF ~ok THEN [matched |-> FALSE]
        ELSE [matched |-> TRUE,
              g1 |-> SubSeq(block, s1 + 1, w),
              g2 |-> SubSeq(block, s2 + 1, o),
              g3 |-> SubSeq(block, s3 + 1, n)]

\* re.search of that pattern: the leftmost position at which it matches
CheckSearch(block, kw) ==
    LET hits == {pos \in Occurrences(block, kw) : CheckMatchAt(block, kw, pos).matched}
    IN  IF hits = {} THEN [matched |-> FALSE] ELSE CheckMatchAt(block, kw, Min(hits))

\* ENC\s+(\w+)\s+(\w+)\s*([<>=!]+)\s*([\d.]+) tried at position pos
EncMatchAt(block, pos) ==
    LET a  == pos + Len(kwENC)
        s1 == RunEnd(block, a, SpaceChars)
        w1 == RunEnd(block, s1 + 1, WordChars)
        s2 == RunEnd(block, w1 + 1, SpaceChars)
        w2 == RunEnd(block, s2 + 1, WordChars)
        s3 == RunEnd(block, w2 + 1, SpaceChars)
        o  == RunEnd(block, s3 + 1, OpChars)
        s4 == RunEnd(block, o + 1, SpaceChars)
        n  == RunEnd(block, s4 + 1, NumChars)
        ok == /\ MatchesAt(block, kwENC, pos)
              /\ s1 >= a /\ w1 > s1 /\ s2 > w1 /\ w2 > s2 /\ o > s3 /\ n > s4
    IN  IF ~ok THEN [matched |-> FALSE]
        ELSE [matched |-> TRUE,
              g1 |-> SubSeq(block, s1 + 1, w1),
              g2 |-> SubSeq(block, s2 + 1, w2),
              g3 |-> SubSeq(block, s3 + 1, o),
              g4 |-> SubSeq(block, s4 + 1, n)]

EncSearch(block) ==
    LET hits == {pos \in Occurrences(block, kwENC) : EncMatchAt(block, pos).matched}
    IN  IF hits = {} THEN [matched |-> FALSE] ELSE EncMatchAt(block, Min(hits))

\* the alternation (AND|OR|NOT) at position pos: the first alternative that
\* lets the rest of the pattern (\s+ next) match
OperationAt(line, pos) ==
    LET fits(kw) == /\ MatchesAt(line, kw, pos)
                    /\ pos + Len(kw) <= Len(line)
                    /\ InClass(line[pos + Len(kw)], SpaceChars)
    IN  IF fits(kwAND) THEN kwAND
        ELSE IF fits(kwOR) THEN kwOR
        ELSE IF fits(kwNOT) THEN kwNOT
        ELSE None

\* re.match(r'(\w+)\s*=\s*(AND|OR|NOT)\s+(\w+)(?:\s+(\w+))?', line)
AssignMatch(line) ==
    LET w  == RunEnd(line, 1, WordChars)
        s1 == RunEnd(line, w + 1, SpaceChars)
        e  == s1 + 1
        s2 == RunEnd(line, e + 1, SpaceChars)
        op == OperationAt(line, s2 + 1)
        a  == s2 + Len(op)
        s3 == RunEnd(line, a + 1, SpaceChars)
        w1 == RunEnd(line, s3 + 1, WordChars)
        s4 == RunEnd(line, w1 + 1, SpaceChars)
        w2 == RunEnd(line, s4 + 1, WordChars)
        ok == /\ w >= 1
              /\ e <= Len(line) /\ line[e] = chEq
              /\ op # None
              /\ s3 > a /\ w1 > s3
    IN  IF ~ok THEN [matched |-> FALSE]
        ELSE [matched |-> TRUE,
              g1 |-> SubSeq(line, 1, w),
              g2 |-> op,
              g3 |-> SubSeq(line, s3 + 1, w1),
              g4 |-> IF s4 > w1 /\ w2 > s4 THEN SubSeq(line, s4 + 1, w2) ELSE None]

(***************************************************************************)
(* SVRFParser: the three statement parsers.  Each gives the new value of   *)
(* what it writes.                                                         *)
(***************************************************************************)
\* a variant of DictSet with a plausible fault: a name already in the table
\* keeps its first entry
DictSet_keeps_first(layers, layer) ==
    IF \E k \in 1..Len(layers) : layers[k].name = layer.name
    THEN layers
    ELSE Append(layers, layer)

\* self.layers[name] = layer on a dict, which keeps insertion order: a new
\* name goes last, a known name keeps its place
DictSet(layers, layer) ==
    LET at == {k \in 1..Len(layers) : layers[k].name = layer.name}
    IN  IF at = {} THEN Append(layers, layer)
        ELSE [layers EXCEPT ![Min(at)] = layer]

\* _parse_layer: the layers after the call, or that int() raised (the
\* layers then as they were)
_parse_layer(layers, line) ==
    LET match == LayerMatch(line)
    IN  IF ~match.matched THEN [raised |-> FALSE, layers |-> layers]
        ELSE IF IntRaises(match.g2) \/ (match.g3 # None /\ IntRaises(match.g3))
        THEN [raised |-> TRUE, layers |-> layers]
        ELSE [raised |-> FALSE,
              layers |-> DictSet(layers,
                             LayerDef(match.g1, IntOf(match.g2),
                                      IF match.g3 # None THEN IntOf(match.g3) ELSE 0))]

\* the WIDTH, EXTERNAL and INTERNAL branches of _parse_rule_block, which
\* differ in the keyword and the class of the node: the nodes the branch
\* appends (none or one), or that float() raised
CheckMatched(type, rule_name, match, comment) ==
    IF ~match.matched THEN [raised |-> FALSE, nodes |-> <<>>]
    ELSE IF FloatRaises(match.g3) THEN [raised |-> TRUE, nodes |-> <<>>]
    ELSE [raised |-> FALSE,
          nodes |-> <<IF type = "WidthCheck"
                      THEN WidthCheck(rule_name, match.g1, match.g2,
                                      FloatOf(match.g3), comment)
                      ELSE SpacingCheck(rule_name, match.g1, match.g2,
                                        FloatOf(match.g3), comment)>>]

CheckBranch(type, rule_name, block, kw, comment) ==
    CheckMatched(type, rule_name, CheckSearch(block, kw), comment)

\* the ENC branch
EncMatched(rule_name, match, comment) ==
    IF ~match.matched THEN [raised |-> FALSE, nodes |-> <<>>]
    ELSE IF FloatRaises(match.g4) THEN [raised |-> TRUE, nodes |-> <<>>]
    ELSE [raised |-> FALSE,
          nodes |-> <<EnclosureCheck(rule_name, match.g1, match.g2, match.g3,
                                     FloatOf(match.g4), comment)>>]

EncBranch(rule_name, block, comment) == EncMatched(rule_name, EncSearch(block), comment)

\* a variant of _parse_rule_block with a plausible fault: the keyword that
\* comes first in the text of the block decides, not the fixed priority
_parse_rule_block_by_position(rule_name, block, comment) ==
    LET present == {kw \in {kwWIDTH, kwEXTERNAL, kwINTERNAL, kwENC} : Contains(block, kw)}
        first == CHOOSE kw \in present : \A other \in present : Find(block, kw) <= Find(block, other)
    IN  IF present = {} THEN [raised |-> FALSE, nodes |-> <<>>]
        ELSE IF first = kwWIDTH
        THEN CheckBranch("WidthCheck", rule_name, block, kwWIDTH, comment)
        ELSE IF first = kwENC
        THEN EncBranch(rule_name, block, comment)
        ELSE CheckBranch("SpacingCheck", rule_name, block, first, comment)

\* _parse_rule_block: the if/elif chain over the keywords
_parse_rule_block(rule_name, block, comment) ==
    IF Contains(block, kwWIDTH)
    THEN CheckBranch("WidthCheck", rule_name, block, kwWIDTH, comment)
    ELSE IF Contains(block, kwEXTERNAL)
    THEN CheckBranch("SpacingCheck", rule_name, block, kwEXTERNAL, comment)
    ELSE IF Contains(block, kwINTERNAL)
    THEN CheckBranch("SpacingCheck", rule_name, block, kwINTERNAL, comment)
    ELSE IF Contains(block, kwENC)
    THEN EncBranch(rule_name, block, comment)
    ELSE [raised |-> FALSE, nodes |-> <<>>]

\* line.split('@')[1].strip() of _parse_assignment
AssignComment(line) ==
    IF Contains(line, <<chAt>>) THEN Strip(Split(line, chAt)[2]) ELSE None

\* a variant of _parse_assignment with a plausible fault: a line the
\* pattern does not match is kept as a node of its own
_parse_assignment_keeps_unmatched(line) ==
    LET match == AssignMatch(line)
    IN  IF match.matched
        THEN <<BooleanOp(match.g1, match.g2, match.g3, match.g4, AssignComment(line))>>
        ELSE <<BooleanOp(line, kwAND, line, None, None)>>

\* _parse_assignment: the nodes it appends (none or one)
_parse_assignment(line) ==
    LET match == AssignMatch(line)
    IN  IF match.matched
        THEN <<BooleanOp(match.g1, match.g2, match.g3, match.g4, AssignComment(line))>>
        ELSE <<>>

\* line.split('{')[0].strip() of parse_file
BlockName(line) == Strip(Split(line, chLBrace)[1])

\* a variant of BlockComment with a plausible fault: the final strip() left out
BlockComment_not_stripped(line) ==
    IF Contains(line, <<chAt>>)
    THEN Split(Split(line, chAt)[2], chRBrace)[1]
    ELSE None

\* line.split('@')[1].split('}')[0].strip() of parse_file
BlockComment(line) ==
    IF Contains(line, <<chAt>>)
    THEN Strip(Split(Split(line, chAt)[2], chRBrace)[1])
    ELSE None

\* a variant of BraceDelta with a plausible fault: the closing braces are
\* not counted
BraceDelta_opening_only(line) == Count(line, chLBrace)

\* line.count('{') - line.count('}')
BraceDelta(line) == Count(line, chLBrace) - Count(line, chRBrace)

(***************************************************************************)
(* to_pxl of the dataclasses: the lines of the text each returns.          *)
(***************************************************************************)
txt_and == Text(<<"a", "n", "d">>)
txt_or == Text(<<"o", "r">>)
txt_not == Text(<<"n", "o", "t">>)
txt_violations == Text(<<"_", "v", "i", "o", "l", "a", "t", "i", "o", "n", "s">>)
txt_eq == Text(<<" ", "=", " ">>)
txt_layer_open == Text(<<" ", "=", " ", "l", "a", "y", "e", "r", "(">>)
txt_comma == Text(<<",", " ">>)
txt_close_semi == Text(<<")", ";">>)
txt_width_open == Text(<<" ", "=", " ", "w", "i", "d", "t", "h", "(">>)
txt_close_sp == Text(<<")", " ">>)
txt_ext_open == Text(<<" ", "=", " ", "e", "x", "t", "e", "r", "n", "a", "l", "_", "d", "i", "s", "t", "a", "n", "c", "e", "(">>)
txt_enc_open == Text(<<" ", "=", " ", "e", "x", "t", "e", "r", "n", "a", "l", "_", "e", "n", "c", "l", "o", "s", "u", "r", "e", "(">>)
txt_drc_open == Text(<<"d", "r", "c", "_", "d", "e", "c", "k", "(">>)
txt_q_comma_q == Text(<<"\"", ",", " ", "\"">>)
txt_comma_q == Text(<<",", " ", "\"">>)
txt_width_viol == Text(<<"W", "i", "d", "t", "h", " ", "v", "i", "o", "l", "a", "t", "i", "o", "n", ":", " ">>)
txt_spacing_viol == Text(<<"S", "p", "a", "c", "i", "n", "g", " ", "v", "i", "o", "l", "a", "t", "i", "o", "n", ":", " ">>)
txt_enc_viol == Text(<<"E", "n", "c", "l", "o", "s", "u", "r", "e", " ", "v", "i", "o", "l", "a", "t", "i", "o", "n", ":", " ">>)
txt_um_close == Text(<<"u", "m", "\"", ")", ";">>)
txt_comment == Text(<<"/", "/", " ">>)

\* if self.comment: lines.append(f"// {self.comment}")
CommentLines(comment) ==
    IF comment # None /\ comment # <<>> THEN <<txt_comment \o comment>> ELSE <<>>

LayerDef_to_pxl(self) ==
    self.name \o txt_layer_open \o IntStr(self.gds_layer) \o txt_comma
        \o IntStr(self.gds_datatype) \o txt_close_semi

\* a variant of DrcDeckLine with a plausible fault: the description leaves
\* the operator out
DrcDeckLine_without_operator(self, what) ==
    txt_drc_open \o self.rule_name \o txt_violations \o txt_comma_q
        \o self.rule_name \o txt_q_comma_q \o what \o self.value \o txt_um_close

\* the drc_deck(...) registration line the three checks share
DrcDeckLine(self, what) ==
    txt_drc_open \o self.rule_name \o txt_violations \o txt_comma_q
        \o self.rule_name \o txt_q_comma_q \o what \o self.operator \o <<SP>>
        \o self.value \o txt_um_close

WidthCheck_to_pxl(self) ==
    CommentLines(self.comment)
    \o <<self.rule_name \o txt_violations \o txt_width_open \o self.layer
           \o txt_close_sp \o self.operator \o <<SP>> \o self.value \o Text(<<";">>),
         DrcDeckLine(self, txt_width_viol)>>

\* a variant of SpacingCheck.to_pxl with a plausible fault: the layer is
\* given to external_distance once
SpacingCheck_to_pxl_single_layer(self) ==
    CommentLines(self.comment)
    \o <<self.rule_name \o txt_violations \o txt_ext_open \o self.layer
           \o txt_close_sp \o self.operator \o <<SP>> \o self.value \o Text(<<";">>),
         DrcDeckLine(self, txt_spacing_viol)>>

SpacingCheck_to_pxl(self) ==
    CommentLines(self.comment)
    \o <<self.rule_name \o txt_violations \o txt_ext_open \o self.layer
           \o txt_comma \o self.layer \o txt_close_sp \o self.operator \o <<SP>>
           \o self.value \o Text(<<";">>),
         DrcDeckLine(self, txt_spacing_viol)>>

EnclosureCheck_to_pxl(self) ==
    CommentLines(self.comment)
    \o <<self.rule_name \o txt_violations \o txt_enc_open \o self.outer_layer
           \o txt_comma \o self.inner_layer \o txt_close_sp \o self.operator
           \o <<SP>> \o self.value \o Text(<<";">>),
         DrcDeckLine(self, txt_enc_viol)>>

\* str.upper() of one character, for the characters it changes into one
\* other character: <<lo, hi, step, delta>> says that lo, lo + step, ...,
\* hi each become the code point delta further on
UpperRuns ==
    <<
      <<\h00B5, \h00B5, 1, 743>>, <<\h00E0, \h00F6, 1, -32>>,
      <<\h00F8, \h00FE, 1, -32>>, <<\h00FF, \h00FF, 1, 121>>,
      <<\h0101, \h012F, 2, -1>>, <<\h0131, \h0131, 1, -232>>,
      <<\h0133, \h0137, 2, -1>>, <<\h013A, \h0148, 2, -1>>,
      <<\h014B, \h0177, 2, -1>>, <<\h017A, \h017E, 2, -1>>,
      <<\h017F, \h017F, 1, -300>>, <<\h0180, \h0180, 1, 195>>,
      <<\h0183, \h0185, 2, -1>>, <<\h0188, \h0188, 1, -1>>,
      <<\h018C, \h018C, 1, -1>>, <<\h0192, \h0192, 1, -1>>,
      <<\h0195, \h0195, 1, 97>>, <<\h0199, \h0199, 1, -1>>,
      <<\h019A, \h019A, 1, 163>>, <<\h019E, \h019E, 1, 130>>,
      <<\h01A1, \h01A5, 2, -1>>, <<\h01A8, \h01A8, 1, -1>>,
      <<\h01AD, \h01AD, 1, -1>>, <<\h01B0, \h01B0, 1, -1>>,
      <<\h01B4, \h01B6, 2, -1>>, <<\h01B9, \h01B9, 1, -1>>,
      <<\h01BD, \h01BD, 1, -1>>, <<\h01BF, \h01BF, 1, 56>>,
      <<\h01C5, \h01C5, 1, -1>>, <<\h01C6, \h01C6, 1, -2>>,
      <<\h01C8, \h01C8, 1, -1>>, <<\h01C9, \h01C9, 1, -2>>,
      <<\h01CB, \h01CB, 1, -1>>, <<\h01CC, \h01CC, 1, -2>>,
      <<\h01CE, \h01DC, 2, -1>>, <<\h01DD, \h01DD, 1, -79>>,
      <<\h01DF, \h01EF, 2, -1>>, <<\h01F2, \h01F2, 1, -1>>,
      <<\h01F3, \h01F3, 1, -2>>, <<\h01F5, \h01F5, 1, -1>>,
      <<\h01F9, \h021F, 2, -1>>, <<\h0223, \h0233, 2, -1>>,
      <<\h023C, \h023C, 1, -1>>, <<\h023F, \h0240, 1, 10815>>,
      <<\h0242, \h0242, 1, -1>>, <<\h0247, \h024F, 2, -1>>,
      <<\h0250, \h0250, 1, 10783>>, <<\h0251, \h0251, 1, 10780>>,
      <<\h0252, \h0252, 1, 10782>>, <<\h0253, \h0253, 1, -210>>,
      <<\h0254, \h0254, 1, -206>>, <<\h0256, \h0257, 1, -205>>,
      <<\h0259, \h0259, 1, -202>>, <<\h025B, \h025B, 1, -203>>,
      <<\h025C, \h025C, 1, 42319>>, <<\h0260, \h0260, 1, -205>>,
      <<\h0261, \h0261, 1, 42315>>, <<\h0263, \h0263, 1, -207>>,
      <<\h0265, \h0265, 1, 42280>>, <<\h0266, \h0266, 1, 42308>>,
      <<\h0268, \h0268, 1, -209>>, <<\h0269, \h0269, 1, -211>>,
      <<\h026A, \h026A, 1, 42308>>, <<\h026B, \h026B, 1, 10743>>,
      <<\h026C, \h026C, 1, 42305>>, <<\h026F, \h026F, 1, -211>>,
      <<\h0271, \h0271, 1, 10749>>, <<\h0272, \h0272, 1, -213>>,
      <<\h0275, \h0275, 1, -214>>, <<\h027D, \h027D, 1, 10727>>,
      <<\h0280, \h0280, 1, -218>>, <<\h0282, \h0282, 1, 42307>>,
      <<\h0283, \h0283, 1, -218>>, <<\h0287, \h0287, 1, 42282>>,
      <<\h0288, \h0288, 1, -218>>, <<\h0289, \h0289, 1, -69>>,
      <<\h028A, \h028B, 1, -217>>, <<\h028C, \h028C, 1, -71>>,
      <<\h0292, \h0292, 1, -219>>, <<\h029D, \h029D, 1, 42261>>,
      <<\h029E, \h029E, 1, 42258>>, <<\h0345, \h0345, 1, 84>>,
      <<\h0371, \h0373, 2, -1>>, <<\h0377, \h0377, 1, -1>>,
      <<\h037B, \h037D, 1, 130>>, <<\h03AC, \h03AC, 1, -38>>,
      <<\h03AD, \h03AF, 1, -37>>, <<\h03B1, \h03C1, 1, -32>>,
      <<\h03C2, \h03C2, 1, -31>>, <<\h03C3, \h03CB, 1, -32>>,
      <<\h03CC, \h03CC, 1, -64>>, <<\h03CD, \h03CE, 1, -63>>,
      <<\h03D0, \h03D0, 1, -62>>, <<\h03D1, \h03D1, 1, -57>>,
      <<\h03D5, \h03D5, 1, -47>>, <<\h03D6, \h03D6, 1, -54>>,
      <<\h03D7, \h03D7, 1, -8>>, <<\h03D9, \h03EF, 2, -1>>,
      <<\h03F0, \h03F0, 1, -86>>, <<\h03F1, \h03F1, 1, -80>>,
      <<\h03F2, \h03F2, 1, 7>>, <<\h03F3, \h03F3, 1, -116>>,
      <<\h03F5, \h03F5, 1, -96>>, <<\h03F8, \h03F8, 1, -1>>,
      <<\h03FB, \h03FB, 1, -1>>, <<\h0430, \h044F, 1, -32>>,
      <<\h0450, \h045F, 1, -80>>, <<\h0461, \h0481, 2, -1>>,
      <<\h048B, \h04BF, 2, -1>>, <<\h04C2, \h04CE, 2, -1>>,
      <<\h04CF, \h04CF, 1, -15>>, <<\h04D1, \h052F, 2, -1>>,
      <<\h0561, \h0586, 1, -48>>, <<\h10D0, \h10FA, 1, 3008>>,
      <<\h10FD, \h10FF, 1, 3008>>, <<\h13F8, \h13FD, 1, -8>>,
      <<\h1C80, \h1C80, 1, -6254>>, <<\h1C81, \h1C81, 1, -6253>>,
      <<\h1C82, \h1C82, 1, -6244>>, <<\h1C83, \h1C84, 1, -6242>>,
      <<\h1C85, \h1C85, 1, -6243>>, <<\h1C86, \h1C86, 1, -6236>>,
      <<\h1C87, \h1C87, 1, -6181>>, <<\h1C88, \h1C88, 1, 35266>>,
      <<\h1D79, \h1D79, 1, 35332>>, <<\h1D7D, \h1D7D, 1, 3814>>,
      <<\h1D8E, \h1D8E, 1, 35384>>, <<\h1E01, \h1E95, 2, -1>>,
      <<\h1E9B, \h1E9B, 1, -59>>, <<\h1EA1, \h1EFF, 2, -1>>,
      <<\h1F00, \h1F07, 1, 8>>, <<\h1F10, \h1F15, 1, 8>>,
      <<\h1F20, \h1F27, 1, 8>>, <<\h1F30, \h1F37, 1, 8>>,
      <<\h1F40, \h1F45, 1, 8>>, <<\h1F51, \h1F57, 2, 8>>,
      <<\h1F60, \h1F67, 1, 8>>, <<\h1F70, \h1F71, 1, 74>>,
      <<\h1F72, \h1F75, 1, 86>>, <<\h1F76, \h1F77, 1, 100>>,
      <<\h1F78, \h1F79, 1, 128>>, <<\h1F7A, \h1F7B, 1, 112>>,
      <<\h1F7C, \h1F7D, 1, 126>>, <<\h1FB0, \h1FB1, 1, 8>>,
      <<\h1FBE, \h1FBE, 1, -7205>>, <<\h1FD0, \h1FD1, 1, 8>>,
      <<\h1FE0, \h1FE1, 1, 8>>, <<\h1FE5, \h1FE5, 1, 7>>,
      <<\h214E, \h214E, 1, -28>>, <<\h2170, \h217F, 1, -16>>,
      <<\h2184, \h2184, 1, -1>>, <<\h24D0, \h24E9, 1, -26>>,
      <<\h2C30, \h2C5F, 1, -48>>, <<\h2C61, \h2C61, 1, -1>>,
      <<\h2C65, \h2C65, 1, -10795>>, <<\h2C66, \h2C66, 1, -10792>>,
      <<\h2C68, \h2C6C, 2, -1>>, <<\h2C73, \h2C73, 1, -1>>,
      <<\h2C76, \h2C76, 1, -1>>, <<\h2C81, \h2CE3, 2, -1>>,
      <<\h2CEC, \h2CEE, 2, -1>>, <<\h2CF3, \h2CF3, 1, -1>>,
      <<\h2D00, \h2D25, 1, -7264>>, <<\h2D27, \h2D27, 1, -7264>>,
      <<\h2D2D, \h2D2D, 1, -7264>>, <<\hA641, \hA66D, 2, -1>>,
      <<\hA681, \hA69B, 2, -1>>, <<\hA723, \hA72F, 2, -1>>,
      <<\hA733, \hA76F, 2, -1>>, <<\hA77A, \hA77C, 2, -1>>,
      <<\hA77F, \hA787, 2, -1>>, <<\hA78C, \hA78C, 1, -1>>,
      <<\hA791, \hA793, 2, -1>>, <<\hA794, \hA794, 1, 48>>,
      <<\hA797, \hA7A9, 2, -1>>, <<\hA7B5, \hA7C3, 2, -1>>,
      <<\hA7C8, \hA7CA, 2, -1>>, <<\hA7D1, \hA7D1, 1, -1>>,
      <<\hA7D7, \hA7D9, 2, -1>>, <<\hA7F6, \hA7F6, 1, -1>>,
      <<\hAB53, \hAB53, 1, -928>>, <<\hAB70, \hABBF, 1, -38864>>,
      <<\hFF41, \hFF5A, 1, -32>>, <<\h10428, \h1044F, 1, -40>>,
      <<\h104D8, \h104FB, 1, -40>>, <<\h10597, \h105A1, 1, -39>>,
      <<\h105A3, \h105B1, 1, -39>>, <<\h105B3, \h105B9, 1, -39>>,
      <<\h105BB, \h105BC, 1, -39>>, <<\h10CC0, \h10CF2, 1, -64>>,
      <<\h118C0, \h118DF, 1, -32>>, <<\h16E60, \h16E7F, 1, -32>>,
      <<\h1E922, \h1E943, 1, -34>> >>
\* the characters str.upper() turns into several characters
UpperSpecial ==
    <<
      <<\h00DF, <<\h0053, \h0053>>>>, <<\h0149, <<\h02BC, \h004E>>>>,
      <<\h01F0, <<\h004A, \h030C>>>>,
      <<\h0390, <<\h0399, \h0308, \h0301>>>>,
      <<\h03B0, <<\h03A5, \h0308, \h0301>>>>,
      <<\h0587, <<\h0535, \h0552>>>>, <<\h1E96, <<\h0048, \h0331>>>>,
      <<\h1E97, <<\h0054, \h0308>>>>, <<\h1E98, <<\h0057, \h030A>>>>,
      <<\h1E99, <<\h0059, \h030A>>>>, <<\h1E9A, <<\h0041, \h02BE>>>>,
      <<\h1F50, <<\h03A5, \h0313>>>>,
      <<\h1F52, <<\h03A5, \h0313, \h0300>>>>,
      <<\h1F54, <<\h03A5, \h0313, \h0301>>>>,
      <<\h1F56, <<\h03A5, \h0313, \h0342>>>>,
      <<\h1F80, <<\h1F08, \h0399>>>>, <<\h1F81, <<\h1F09, \h0399>>>>,
      <<\h1F82, <<\h1F0A, \h0399>>>>, <<\h1F83, <<\h1F0B, \h0399>>>>,
      <<\h1F84, <<\h1F0C, \h0399>>>>, <<\h1F85, <<\h1F0D, \h0399>>>>,
      <<\h1F86, <<\h1F0E, \h0399>>>>, <<\h1F87, <<\h1F0F, \h0399>>>>,
      <<\h1F88, <<\h1F08, \h0399>>>>, <<\h1F89, <<\h1F09, \h0399>>>>,
      <<\h1F8A, <<\h1F0A, \h0399>>>>, <<\h1F8B, <<\h1F0B, \h0399>>>>,
      <<\h1F8C, <<\h1F0C, \h0399>>>>, <<\h1F8D, <<\h1F0D, \h0399>>>>,
      <<\h1F8E, <<\h1F0E, \h0399>>>>, <<\h1F8F, <<\h1F0F, \h0399>>>>,
      <<\h1F90, <<\h1F28, \h0399>>>>, <<\h1F91, <<\h1F29, \h0399>>>>,
      <<\h1F92, <<\h1F2A, \h0399>>>>, <<\h1F93, <<\h1F2B, \h0399>>>>,
      <<\h1F94, <<\h1F2C, \h0399>>>>, <<\h1F95, <<\h1F2D, \h0399>>>>,
      <<\h1F96, <<\h1F2E, \h0399>>>>, <<\h1F97, <<\h1F2F, \h0399>>>>,
      <<\h1F98, <<\h1F28, \h0399>>>>, <<\h1F99, <<\h1F29, \h0399>>>>,
      <<\h1F9A, <<\h1F2A, \h0399>>>>, <<\h1F9B, <<\h1F2B, \h0399>>>>,
      <<\h1F9C, <<\h1F2C, \h0399>>>>, <<\h1F9D, <<\h1F2D, \h0399>>>>,
      <<\h1F9E, <<\h1F2E, \h0399>>>>, <<\h1F9F, <<\h1F2F, \h0399>>>>,
      <<\h1FA0, <<\h1F68, \h0399>>>>, <<\h1FA1, <<\h1F69, \h0399>>>>,
      <<\h1FA2, <<\h1F6A, \h0399>>>>, <<\h1FA3, <<\h1F6B, \h0399>>>>,
      <<\h1FA4, <<\h1F6C, \h0399>>>>, <<\h1FA5, <<\h1F6D, \h0399>>>>,
      <<\h1FA6, <<\h1F6E, \h0399>>>>, <<\h1FA7, <<\h1F6F, \h0399>>>>,
      <<\h1FA8, <<\h1F68, \h0399>>>>, <<\h1FA9, <<\h1F69, \h0399>>>>,
      <<\h1FAA, <<\h1F6A, \h0399>>>>, <<\h1FAB, <<\h1F6B, \h0399>>>>,
      <<\h1FAC, <<\h1F6C, \h0399>>>>, <<\h1FAD, <<\h1F6D, \h0399>>>>,
      <<\h1FAE, <<\h1F6E, \h0399>>>>, <<\h1FAF, <<\h1F6F, \h0399>>>>,
      <<\h1FB2, <<\h1FBA, \h0399>>>>, <<\h1FB3, <<\h0391, \h0399>>>>,
      <<\h1FB4, <<\h0386, \h0399>>>>, <<\h1FB6, <<\h0391, \h0342>>>>,
      <<\h1FB7, <<\h0391, \h0342, \h0399>>>>,
      <<\h1FBC, <<\h0391, \h0399>>>>, <<\h1FC2, <<\h1FCA, \h0399>>>>,
      <<\h1FC3, <<\h0397, \h0399>>>>, <<\h1FC4, <<\h0389, \h0399>>>>,
      <<\h1FC6, <<\h0397, \h0342>>>>,
      <<\h1FC7, <<\h0397, \h0342, \h0399>>>>,
      <<\h1FCC, <<\h0397, \h0399>>>>,
      <<\h1FD2, <<\h0399, \h0308, \h0300>>>>,
      <<\h1FD3, <<\h0399, \h0308, \h0301>>>>,
      <<\h1FD6, <<\h0399, \h0342>>>>,
      <<\h1FD7, <<\h0399, \h0308, \h0342>>>>,
      <<\h1FE2, <<\h03A5, \h0308, \h0300>>>>,
      <<\h1FE3, <<\h03A5, \h0308, \h0301>>>>,
      <<\h1FE4, <<\h03A1, \h0313>>>>, <<\h1FE6, <<\h03A5, \h0342>>>>,
      <<\h1FE7, <<\h03A5, \h0308, \h0342>>>>,
      <<\h1FF2, <<\h1FFA, \h0399>>>>, <<\h1FF3, <<\h03A9, \h0399>>>>,
      <<\h1FF4, <<\h038F, \h0399>>>>, <<\h1FF6, <<\h03A9, \h0342>>>>,
      <<\h1FF7, <<\h03A9, \h0342, \h0399>>>>,
      <<\h1FFC, <<\h03A9, \h0399>>>>, <<\hFB00, <<\h0046, \h0046>>>>,
      <<\hFB01, <<\h0046, \h0049>>>>, <<\hFB02, <<\h0046, \h004C>>>>,
      <<\hFB03, <<\h0046, \h0046, \h0049>>>>,
      <<\hFB04, <<\h0046, \h0046, \h004C>>>>,
      <<\hFB05, <<\h0053, \h0054>>>>, <<\hFB06, <<\h0053, \h0054>>>>,
      <<\hFB13, <<\h0544, \h0546>>>>, <<\hFB14, <<\h0544, \h0535>>>>,
      <<\hFB15, <<\h0544, \h053B>>>>, <<\hFB16, <<\h054E, \h0546>>>>,
      <<\hFB17, <<\h0544, \h053D>>>> >>

\* c.upper() for one character c: the text it gives, which for some
\* characters has more than one character
UpperChar(c) ==
    IF c < 128 THEN (IF chLowerA <= c /\ c <= chLowerZ THEN <<c - 32>> ELSE <<c>>)
    ELSE LET special == {r \in DOMAIN UpperSpecial : UpperSpecial[r][1] = c}
             runs == {r \in DOMAIN UpperRuns :
                         /\ UpperRuns[r][1] <= c /\ c <= UpperRuns[r][2]
                         /\ (c - UpperRuns[r][1]) % UpperRuns[r][3] = 0}
         IN  IF special # {} THEN UpperSpecial[CHOOSE r \in special : TRUE][2]
             ELSE IF runs # {} THEN <<c + UpperRuns[CHOOSE r \in runs : TRUE][4]>>
             ELSE <<c>>

RECURSIVE Upper(_)
Upper(s) == IF s = <<>> THEN <<>> ELSE UpperChar(Head(s)) \o Upper(Tail(s))

\* a variant of op_map with a plausible fault: the dict has no 'NOT' entry,
\* so NOT falls to the default
op_map_without_not(operation) ==
    LET u == Upper(operation)
    IN  IF u = kwOR THEN txt_or ELSE txt_and

\* op_map.get(self.operation.upper(), 'and')
op_map(operation) ==
    LET u == Upper(operation)
    IN  IF u = kwAND THEN txt_and
        ELSE IF u = kwOR THEN txt_or
        ELSE IF u = kwNOT THEN txt_not
        ELSE txt_and

\* a variant of BooleanOp_to_pxl with a plausible fault: the operation is
\* written as the node holds it, not through op_map
BooleanOp_to_pxl_unmapped(self) ==
    CommentLines(self.comment)
    \o <<IF self.layer2 # None /\ self.layer2 # <<>>
         THEN self.result_name \o txt_eq \o self.layer1 \o <<SP>> \o self.operation
                \o <<SP>> \o self.layer2 \o Text(<<";">>)
         ELSE self.result_name \o txt_eq \o self.operation \o <<SP>> \o self.layer1
                \o Text(<<";">>)>>

BooleanOp_to_pxl(self) ==
    LET pxl_op == op_map(self.operation)
    IN  CommentLines(self.comment)
        \o <<IF self.layer2 # None /\ self.layer2 # <<>>
             THEN self.result_name \o txt_eq \o self.layer1 \o <<SP>> \o pxl_op
                    \o <<SP>> \o self.layer2 \o Text(<<";">>)
             ELSE self.result_name \o txt_eq \o pxl_op \o <<SP>> \o self.layer1
                    \o Text(<<";">>)>>

\* rule.to_pxl(): the method of the node's class
to_pxl(rule) ==
    CASE rule.type = "WidthCheck" -> WidthCheck_to_pxl(rule)
      [] rule.type = "SpacingCheck" -> SpacingCheck_to_pxl(rule)
      [] rule.type = "EnclosureCheck" -> EnclosureCheck_to_pxl(rule)
      [] rule.type = "BooleanOp" -> BooleanOp_to_pxl(rule)

(***************************************************************************)
(* PXLGenerator.  A text is the sequence of its lines (text.split("\n")),  *)
(* so "\n".join of texts is the concatenation of their line sequences.     *)
(***************************************************************************)
BannerWidth == 76
Banner == Text(<<"/", "/", " ">>) \o [k \in 1..BannerWidth |-> chEq]

txt_generated ==
    Text(<<"/", "/", " ", "A", "u", "t", "o", "m", "a", "t", "i", "c", "a", "l",
      "l", "y", " ", "G", "e", "n", "e", "r", "a", "t", "e", "d", " ", "b",
      "y", " ", "S", "V", "R", "F", "-", "t", "o", "-", "P", "X", "L", " ",
      "T", "r", "a", "n", "s", "l", "a", "t", "o", "r", " ", "(", "P", "r",
      "o", "t", "o", "t", "y", "p", "e", ")">>)
txt_translated ==
    Text(<<"/", "/", " ", "T", "h", "i", "s", " ", "f", "i", "l", "e", " ", "w",
      "a", "s", " ", "a", "u", "t", "o", "m", "a", "t", "i", "c", "a", "l",
      "l", "y", " ", "t", "r", "a", "n", "s", "l", "a", "t", "e", "d", " ",
      "f", "r", "o", "m", " ", "C", "a", "l", "i", "b", "r", "e", " ", "S",
      "V", "R", "F", " ", "f", "o", "r", "m", "a", "t">>)
txt_review ==
    Text(<<"/", "/", " ", "M", "a", "n", "u", "a", "l", " ", "r", "e", "v", "i",
      "e", "w", " ", "a", "n", "d", " ", "v", "a", "l", "i", "d", "a", "t",
      "i", "o", "n", " ", "r", "e", "c", "o", "m", "m", "e", "n", "d", "e",
      "d">>)
txt_include ==
    Text(<<"#", "i", "n", "c", "l", "u", "d", "e", " ", "<", "i", "c", "v", ".",
      "r", "h", ">">>)
txt_layer_definitions ==
    Text(<<"/", "/", " ", "L", "A", "Y", "E", "R", " ", "D", "E", "F", "I", "N",
      "I", "T", "I", "O", "N", "S">>)
txt_drc_rules ==
    Text(<<"/", "/", " ", "D", "R", "C", " ", "R", "U", "L", "E", "S">>)
txt_end_of_deck ==
    Text(<<"/", "/", " ", "E", "N", "D", " ", "O", "F", " ", "D", "R", "C", " ",
      "D", "E", "C", "K">>)

generate_header ==
    <<Banner,
      txt_generated,
      Banner,
      txt_translated,
      txt_review,
      Banner, <<>>, txt_include, <<>>, <<>>>>

\* a < b for two str: the comparison by code points
StrLess(a, b) ==
    \/ Len(a) < Len(b) /\ IsPrefixOf(a, b)
    \/ \E k \in 1..Min({Len(a), Len(b)}) :
           /\ \A j \in 1..(k - 1) : a[j] = b[j]
           /\ a[k] < b[k]

\* --- variants of sorted with a plausible fault, for the mutation checks ---
\* the sort forgotten: the values in dict order
sorted_not_sorted(seq) == seq

\* key=lambda x: (x.gds_layer, x.name): ties broken by name
RECURSIVE sorted_by_layer_and_name(_)
sorted_by_layer_and_name(seq) ==
    IF seq = <<>> THEN <<>>
    ELSE LET front == sorted_by_layer_and_name(SubSeq(seq, 1, Len(seq) - 1))
             x == seq[Len(seq)]
             k == Cardinality({j \in 1..Len(front) :
                      \/ front[j].gds_layer < x.gds_layer
                      \/ front[j].gds_layer = x.gds_layer
                         /\ (front[j].name = x.name \/ StrLess(front[j].name, x.name))})
         IN  SubSeq(front, 1, k) \o <<x>> \o SubSeq(front, k + 1, Len(front))

\* sorted(seq, key=lambda x: x.gds_layer): a stable sort, so layers with
\* the same gds_layer keep the order they have in seq
RECURSIVE sorted(_)
sorted(seq) ==
    IF seq = <<>> THEN <<>>
    ELSE LET front == sorted(SubSeq(seq, 1, Len(seq) - 1))
             x == seq[Len(seq)]
             k == Cardinality({j \in 1..Len(front) : front[j].gds_layer <= x.gds_layer})
         IN  SubSeq(front, 1, k) \o <<x>> \o SubSeq(front, k + 1, Len(front))

generate_layers(layers) ==
    LET ordered == sorted(layers)
    IN  <<Banner, txt_layer_definitions, Banner, <<>>>>
        \o [k \in 1..Len(ordered) |-> LayerDef_to_pxl(ordered[k])]
        \o <<<<>>>>

\* a variant of RuleLines with a plausible fault: the last rule first
RECURSIVE RuleLines_reversed(_)
RuleLines_reversed(rules) ==
    IF rules = <<>> THEN <<>>
    ELSE RuleLines_reversed(Tail(rules)) \o to_pxl(rules[1]) \o <<<<>>>>

\* for rule in rules: lines.append(rule.to_pxl()); lines.append("")
RECURSIVE RuleLines(_)
RuleLines(rules) ==
    IF rules = <<>> THEN <<>>
    ELSE to_pxl(rules[1]) \o <<<<>>>> \o RuleLines(Tail(rules))

generate_rules(rules) ==
    <<Banner, txt_drc_rules, Banner, <<>>>> \o RuleLines(rules)

generate_footer == <<Banner, txt_end_of_deck, Banner, <<>>>>

generate(layers, rules) ==
    generate_header \o generate_layers(layers) \o generate_rules(rules)
        \o generate_footer

(***************************************************************************)
(* The inputs the model draws.  A statement is the sequence of its         *)
(* physical lines; a deck is a sequence of statements; the input file is   *)
(* the deck's lines joined by newlines.                                    *)
(***************************************************************************)
MaxStmts == 3       \* statements in a mixed deck
MaxLayerDecls == 3  \* declarations in a deck of layer declarations
MaxClauses == 2     \* check clauses in the body of a probed rule block
MaxOpLen == 2       \* characters in a probed operator

\* words separated by single spaces
Words(ws) == Join(ws, SP)

\* all sequences over S of length 1..n
SeqsUpTo(S, n) == UNION {[1..k -> S] : k \in 1..n}

RECURSIVE Flatten(_)
Flatten(ss) == IF ss = <<>> THEN <<>> ELSE ss[1] \o Flatten(Tail(ss))

DeckText(deck) == Join(Flatten(deck), NL)

tA == Text(<<"A">>)
tB == Text(<<"B">>)
tC == Text(<<"C">>)
tR == Text(<<"R">>)
tW1 == Text(<<"W", "1">>)
tNote == Text(<<"n", "o", "t", "e">>)
tLt == Text(<<"<">>)
tGt == Text(<<">">>)
tOpen == <<chLBrace>>
tClose == <<chRBrace>>
tAt == <<chAt>>
tEq == <<chEq>>
tHalf == Text(<<"0", ".", "5">>)
tOne == Text(<<"1">>)
tBadNum == Text(<<"1", ".", "2", ".", "3">>)

\* --- mixed decks: every kind of statement, in every order ---------------
CoreStatements ==
    { <<Words(<<kwLAYER, tA, Text(<<"2", "0">>)>>)>>,
      <<Words(<<kwLAYER, tB, Text(<<"1", "0">>)>>)>>,
      <<Words(<<tW1, tOpen, kwWIDTH, tA, tLt, tHalf, tClose>>)>>,
      <<Words(<<Text(<<"S", "1">>), tOpen, tAt, tNote>>),
        Words(<<<<>>, kwEXTERNAL, tB, Text(<<">", "=">>), tOne>>),
        tClose>>,
      <<Words(<<Text(<<"E", "1">>), tOpen, kwENC, tB, tA, tGt, tBadNum, tClose>>)>>,
      <<Words(<<Text(<<"U">>), tOpen>>)>>,
      <<Words(<<tR, tEq, kwAND, tA, tB>>)>>,
      <<Words(<<Text(<<"N">>), tEq, kwNOT, tA, tAt, tNote>>)>>,
      <<Words(<<Text(<<"/", "*">>), tNote, Text(<<"*", "/">>), txt_slashes, tNote>>)>>,
      <<Words(<<Text(<<"F", "O", "O">>), tA>>)>> }

MixedDecks == SeqsUpTo(CoreStatements, MaxStmts)

\* --- decks of layer declarations ----------------------------------------
LayerDecls ==
    { <<Words(<<kwLAYER, tA, Text(<<"2", "0">>)>>)>>,
      <<Words(<<kwLAYER, tB, Text(<<"1", "0">>)>>)>>,
      <<Words(<<kwLAYER, tA, Text(<<"1", "0">>)>>)>>,
      <<Words(<<kwLAYER, tC, Text(<<"1", "0">>), Text(<<"5">>)>>)>>,
      <<Words(<<kwLAYER, tB, Text(<<"0", "7">>), Text(<<"x">>)>>)>>,
      <<Words(<<kwLAYER, tC, Text(<<"x", "3">>)>>)>>,
      <<<<>>>> }

LayerDecks == SeqsUpTo(LayerDecls, MaxLayerDecls)

\* --- one rule block: names x bodies --------------------------------------
BlockNames ==
    { tW1, Text(<<"M", "_">>) \o kwWIDTH, kwENC, Text(<<"X">>) \o kwEXTERNAL \o Text(<<"1">>),
      kwINTERNAL \o Text(<<"_", "2">>) }

\* a well-formed body for each keyword
clWIDTH == Words(<<kwWIDTH, tA, tLt, tHalf>>)
clEXTERNAL == Words(<<kwEXTERNAL, tA, Text(<<"<", "=">>), tOne>>)
clINTERNAL == Words(<<kwINTERNAL, tB, tGt, Text(<<"0", "5", "0">>)>>)
clENC == Words(<<kwENC, tB, tC, Text(<<">", "=">>), Text(<<".", "2", "5">>)>>)

Clauses ==
    { clWIDTH, clEXTERNAL, clINTERNAL, clENC,
      Words(<<kwWIDTH, tLt>>),
      Words(<<kwENC, tA, tGt, tOne>>),
      Text(<<"F", "O", "O">>) }

Bodies == {<<>>} \cup {Words(cs) : cs \in SeqsUpTo(Clauses, MaxClauses)}

BlockDecks ==
    { <<<<Words(<<n, tOpen, b, tClose>>)>>>> : n \in BlockNames, b \in Bodies }

\* --- one rule block: EXTERNAL and INTERNAL with the same constraint --------
TwinConstraints ==
    { [words |-> <<tA, Text(<<"<", "=">>), tOne>>,
       layer |-> tA, operator |-> Text(<<"<", "=">>), value |-> Text(<<"1", ".", "0">>)],
      [words |-> <<tB, tGt, Text(<<"0", "5", "0">>)>>,
       layer |-> tB, operator |-> tGt, value |-> Text(<<"5", "0", ".", "0">>)] }

TwinBlock(kw, c) == Words(<<tW1, tOpen, kw>> \o c.words \o <<tClose>>)

TwinDecks ==
    { <<<<TwinBlock(kw, c)>>>> : kw \in {kwEXTERNAL, kwINTERNAL}, c \in TwinConstraints }

\* --- one rule block: operators -------------------------------------------
Operators == SeqsUpTo(OpChars.ascii, MaxOpLen)

OperatorDecks ==
    { <<<<Words(<<tW1, tOpen, kwWIDTH, tA, op, tHalf, tClose>>)>>>> : op \in Operators }
    \cup { <<<<Words(<<tW1, tOpen, kwENC, tB, tA>>) \o op \o tOne \o tClose>>>> :
             op \in Operators }

\* --- one rule block: value tokens ------------------------------------------
Values ==
    { Text(<<".">>), Text(<<".", ".">>), tBadNum, Text(<<"1", ".">>), Text(<<".", "5">>),
      Text(<<"0", "0", "7">>), Text(<<"0", ".", "5", "0">>) }

ValueBlock(kw, v) ==
    IF kw = kwENC THEN Words(<<tW1, tOpen, kwENC, tB, tA, tLt, v, tClose>>)
    ELSE Words(<<tW1, tOpen, kw, tA, tLt, v, tClose>>)

ValueDecks == { <<<<ValueBlock(kw, v)>>>> : kw \in {kwWIDTH, kwENC}, v \in Values }

\* --- one rule block: annotations -----------------------------------------
AnnotatedHeads ==
    { Words(<<tW1, tOpen>>),
      Words(<<tW1, tOpen, tAt, tNote>>),
      Words(<<tW1, tAt, tNote, tOpen>>),
      Words(<<tW1, tOpen, tAt, tNote, tAt, tA>>),
      Words(<<tW1, tOpen, tAt>>) }

AnnotationDecks ==
    { <<<<Words(<<h, kwWIDTH, tA, tLt, tHalf, tClose>>)>>>> : h \in AnnotatedHeads }
    \cup { <<<<h, Words(<<kwEXTERNAL, tA, tLt, tHalf>>), tClose>>>> : h \in AnnotatedHeads }
    \cup { <<<<h, Words(<<kwEXTERNAL, tA, tLt, tHalf, tAt, tB>>), tClose>>>> :
             h \in AnnotatedHeads }

\* --- one assignment --------------------------------------------------------
Operations ==
    { kwAND, kwOR, kwNOT, txt_and, txt_or, txt_not,
      Text(<<"A", "n", "d">>), Text(<<"N", "o", "t">>), Text(<<"X", "O", "R">>), kwAND \o Text(<<"Y">>) }

OperandTails ==
    { <<tA>>, <<tA, tB>>, <<tA, tB, tC>>, <<tA, tAt, tNote>>, <<tA, tB, tAt, tNote>>,
      <<tA, tAt>>, <<tA, tAt, tNote, tAt, tB>>, <<>>, <<tA, tEq, tB>> }

AssignmentDecks ==
    { <<<<Words(<<tR, tEq, op>> \o tail)>>>> : op \in Operations, tail \in OperandTails }
    \cup { <<<<tR \o tEq \o op \o Text(<<"\t">>) \o tA>>>> : op \in Operations }

\* --- closing braces: alone, in excess, and missing ---------------------------
MaxBraceStmts == 2  \* statements in a deck of brace statements

BraceStatements ==
    { <<tClose>>,                                                  \* } alone
      <<Words(<<tW1, tOpen, kwWIDTH, tA, tLt, tHalf, tClose, tClose>>)>>,
      <<Words(<<Text(<<"U">>), tOpen>>), Words(<<tClose, tClose>>)>>,    \* closed twice
      <<Words(<<Text(<<"U">>), tOpen>>)>>,                               \* never closed
      <<Words(<<tR, tEq, kwAND, tA, tB>>)>> }

BraceDecks == SeqsUpTo(BraceStatements, MaxBraceStmts)

\* --- one statement: characters beyond ASCII, floats beyond positional ------
tLong == Text(<<"1", "2", "3", "4", "5", "6", "7", "8", "9", "0", "1", "2", "3", "4", "5", "6", "7", "8">>)

CharacterStatements ==
    { <<Words(<<kwLAYER, <<\h00E9, \h00B5>>, <<\h0663, Ord("1")>>>>)>>,
      <<<<\h00A0>> \o Words(<<kwLAYER, tA, Text(<<"5">>)>>) \o Text(<<"\f">>)>>,
      <<Words(<<tW1, tOpen, kwWIDTH>>) \o Text(<<"\f">>) \o Words(<<tA, tLt, tHalf, tClose>>)>>,
      <<Words(<<tW1, tOpen, kwWIDTH, tA, tLt, Text(<<"0", ".", "0", "0", "0", "0", "1">>), tClose>>)>>,
      <<Words(<<tW1, tOpen, kwWIDTH, tA, tLt, Text(<<"1">>) \o Zeros(16), tClose>>)>>,
      <<Words(<<tW1, tOpen, kwWIDTH, tA, tLt, tLong, tClose>>)>>,
      <<Words(<<tW1, tOpen, kwWIDTH, tA, tLt, <<\h0660, chDot, \h0665>>, tClose>>)>>,
      <<Words(<<kwLAYER, <<\h0531, \h4E2D, \h0561>>, Text(<<"7">>)>>)>>,
      <<Words(<<<<\h0561, \hFB01>>, tEq, kwOR, <<\h0531>>, <<\h4E2D>>>>)>> }

CharacterDecks == { <<s>> : s \in CharacterStatements }

\* --- layer numbers at the limit of int() -----------------------------------
\* as many digits as int() takes, the number 7; one digit more
tMostDigits == [k \in 1..MaxIntDigits |-> IF k = MaxIntDigits THEN Ord("7") ELSE chZero]
tTooManyDigits == [k \in 1..(MaxIntDigits + 1) |-> Ord("1")]

LongNumberDecks ==
    { << <<Words(<<kwLAYER, tA, Text(<<"1", "0">>)>>)>>,
         <<Words(<<kwLAYER, tA, tTooManyDigits>>)>>,
         <<Words(<<kwLAYER, tC, Text(<<"1", "0">>), Text(<<"5">>)>>)>> >>,
      << <<Words(<<kwLAYER, tA, tOne, tTooManyDigits>>)>>,
         <<Words(<<tR, tEq, kwAND, tA, tB>>)>> >>,
      << <<Words(<<kwLAYER, tA, tMostDigits, tMostDigits>>)>> >> }

\* decks with the delimiters of a block comment: one that is opened and
\* never closed, one that is closed and was never opened, and one that runs
\* over three lines
CommentDecks ==
    { << <<Words(<<kwLAYER, tA, Text(<<"2", "0">>), txt_copen, Text(<<"n", "o", "t", "e">>)>>)>>,
         <<Words(<<tR, tEq, kwAND, tA, tB>>)>> >>,
      << <<Words(<<kwLAYER, tA, Text(<<"2", "0">>)>>)>>,
         <<Words(<<tR, tEq, kwAND, tA, tB>>)>>,
         <<Words(<<kwLAYER, tB, Text(<<"1", "0">>), txt_cclose>>)>> >>,
      << <<Words(<<kwLAYER, tA, Text(<<"2", "0">>), txt_copen, Text(<<"a">>)>>),
           Words(<<kwLAYER, tC, Text(<<"1", "0">>)>>),
           Words(<<Text(<<"b">>), txt_cclose, kwLAYER, tB, Text(<<"1", "0">>)>>)>>,
         <<Words(<<tR, tEq, kwAND, tA, tB>>)>> >> }

Decks ==
    MixedDecks \cup LayerDecks \cup BlockDecks \cup TwinDecks \cup OperatorDecks
        \cup ValueDecks
        \cup AnnotationDecks \cup AssignmentDecks \cup BraceDecks \cup CharacterDecks
        \cup LongNumberDecks \cup CommentDecks

(***************************************************************************)
(* The state of one run of the translator.                                 *)
(*   content            the text of the input file                         *)
(*   lines, i           parse_file: the lines and the index of the next    *)
(*   current_rule_name, comment, brace_count, rule_lines                   *)
(*                      parse_file: the rule block being accumulated       *)
(*   layers, rules      the parser's tables (layers in insertion order)    *)
(*   origin             for each node of rules, the index in lines of the  *)
(*                      first line of the statement that produced it       *)
(*                      (a history variable; the code keeps no such field) *)
(*   output             the text generate returns, as its lines            *)
(*   out_file           the output file: its text as lines, or NoFile when *)
(*                      there is no such file                              *)
(*   returncode         what main returned, NotReturned while it runs and  *)
(*                      when an exception leaves it                        *)
(*   args               the command line: args.verbose, args.stats         *)
(*   pc                 where the run is: "read", "parse", "block" (inside *)
(*                      the brace-matching loop), "done" (generate has     *)
(*                      returned), "exit" (main returned 0), "error" (an   *)
(*                      exception reached main's handlers, main returned   *)
(*                      1), "raised" (an exception left main: the print of *)
(*                      a handler raised)                                  *)
(* content is None when the input file cannot be read.  The console is not *)
(* part of the state: a print either returns or raises (the stream is      *)
(* closed or full, or cannot encode the text).                             *)
(*                                                                         *)
(* The state of one call of DRCComparator.compare (compare_drc_results.py),*)
(* which stays as it starts while the translator runs:                     *)
(*   cal_violations, icv_violations   the two reports: rule -> violations  *)
(*   tolerance          self.tolerance, in units of 0.0001                 *)
(*   results            the dict compare builds                            *)
(*   todo               the rules the loop has still to visit, in order    *)
(*   cpc                where the call is: "idle" (no call), "start",      *)
(*                      "loop", "done"                                     *)
(***************************************************************************)
VARIABLES content, lines, i, current_rule_name, comment, brace_count,
          rule_lines, layers, rules, origin, output, out_file, returncode, args,
          pc, cal_violations, icv_violations, tolerance, results, todo, cpc,
          output_lines, returned

translator_vars ==
    <<content, lines, i, current_rule_name, comment, brace_count,
      rule_lines, layers, rules, origin, output, out_file, returncode, args, pc>>

drc_vars == <<cal_violations, icv_violations, tolerance, results, todo, cpc>>

\* a PXLGenerator that is called more than once: its field output_lines,
\* and the texts its calls of generate have returned so far, in order
gen_vars == <<output_lines, returned>>

vars == <<translator_vars, drc_vars, gen_vars>>

main_vars == <<out_file, returncode>>

\* the value returncode has while main has not returned
NotReturned == -1

block_vars == <<current_rule_name, comment, brace_count, rule_lines>>

\* line = lines[i].strip()
CurLine == Strip(lines[i + 1])

IsSkipped(line) == line = <<>> \/ StartsWith(line, txt_slashes)
IsLayer(line) == StartsWith(line, kwLAYER_SP)
IsBlockOpen(line) == Contains(line, <<chLBrace>>)
IsAssignment(line) == Contains(line, <<chEq>>) /\ ~StartsWith(line, kwLAYER)

\* content = f.read(); the block comments removed; content.split('\n')
ReadInput ==
    /\ pc = "read" /\ content # None
    /\ lines' = Split(StripBlockComments(content), NL)
    /\ i' = 0
    /\ pc' = "parse"
    /\ UNCHANGED <<drc_vars, gen_vars, args, main_vars, content, block_vars, layers, rules, origin, output>>

\* an exception reaches one of main's handlers: the handler prints its
\* message and returns 1, or its print raises and the exception leaves main
Handler ==
    \/ returncode' = 1 /\ pc' = "error"
    \/ returncode' = returncode /\ pc' = "raised"

\* print(f"Parsing {args.input}...") raises: the input is not read
ParsingMessageRaises ==
    /\ pc = "read" /\ args.verbose
    /\ Handler
    /\ UNCHANGED <<drc_vars, gen_vars, args, content, lines, i, block_vars, layers, rules, origin, output, out_file>>

\* open(filename, 'r') or f.read() raises
ReadFails ==
    /\ pc = "read" /\ content = None
    /\ Handler
    /\ UNCHANGED <<drc_vars, gen_vars, args, content, lines, i, block_vars, layers, rules, origin, output, out_file>>

\* an empty line or a // comment
SkipLine ==
    /\ pc = "parse" /\ i < Len(lines)
    /\ IsSkipped(CurLine)
    /\ i' = i + 1
    /\ UNCHANGED <<drc_vars, gen_vars, args, main_vars, content, lines, block_vars, layers, rules, origin, output, pc>>

\* LAYER ...
LayerLine ==
    /\ pc = "parse" /\ i < Len(lines)
    /\ ~IsSkipped(CurLine) /\ IsLayer(CurLine)
    /\ \E r \in {_parse_layer(layers, CurLine)} :
           /\ ~r.raised
           /\ layers' = r.layers
    /\ i' = i + 1
    /\ UNCHANGED <<drc_vars, gen_vars, args, main_vars, content, lines, block_vars, rules, origin, output, pc>>

\* LAYER ... with a number int() does not take: ValueError leaves
\* _parse_layer and parse_file
LayerLineRaises ==
    /\ pc = "parse" /\ i < Len(lines)
    /\ ~IsSkipped(CurLine) /\ IsLayer(CurLine)
    /\ _parse_layer(layers, CurLine).raised
    /\ Handler
    /\ UNCHANGED <<drc_vars, gen_vars, args, content, lines, i, block_vars, layers, rules, origin, output, out_file>>

\* a line with "{": the head of a rule block
OpenBlock ==
    /\ pc = "parse" /\ i < Len(lines)
    /\ ~IsSkipped(CurLine) /\ ~IsLayer(CurLine) /\ IsBlockOpen(CurLine)
    /\ current_rule_name' = BlockName(CurLine)
    /\ comment' = BlockComment(CurLine)
    /\ brace_count' = BraceDelta(CurLine)
    /\ rule_lines' = <<CurLine>>
    /\ i' = i + 1
    /\ pc' = "block"
    /\ UNCHANGED <<drc_vars, gen_vars, args, main_vars, content, lines, layers, rules, origin, output>>

\* one turn of: while i < len(lines) and brace_count > 0
AccumulateLine ==
    /\ pc = "block"
    /\ i < Len(lines) /\ brace_count > 0
    /\ rule_lines' = Append(rule_lines, lines[i + 1])
    /\ brace_count' = brace_count + BraceDelta(lines[i + 1])
    /\ i' = i + 1
    /\ UNCHANGED <<drc_vars, gen_vars, args, main_vars, content, lines, current_rule_name, comment, layers, rules,
                   origin, output, pc>>

BlockDone == pc = "block" /\ ~(i < Len(lines) /\ brace_count > 0)

\* the block as _parse_rule_block gets it
rule_body == Join(rule_lines, NL)

\* the loop left: _parse_rule_block returns
CloseBlock ==
    /\ BlockDone
    /\ \E r \in {_parse_rule_block(current_rule_name, rule_body, comment)} :
           /\ ~r.raised
           /\ rules' = rules \o r.nodes
           /\ origin' = origin \o [k \in 1..Len(r.nodes) |-> i - Len(rule_lines)]
    /\ pc' = "parse"
    /\ UNCHANGED <<drc_vars, gen_vars, args, main_vars, content, lines, i, block_vars, layers, output>>

\* a variant of CloseBlockRaises with a plausible fault: the parser catches
\* the exception itself and goes on with the next statement
CloseBlockRaises_caught ==
    /\ BlockDone
    /\ _parse_rule_block(current_rule_name, rule_body, comment).raised
    /\ pc' = "parse"
    /\ UNCHANGED <<drc_vars, gen_vars, args, main_vars, content, lines, i, block_vars, layers, rules, origin, output>>

\* the loop left: float() raises ValueError inside _parse_rule_block; nothing
\* in the parser catches it
CloseBlockRaises ==
    /\ BlockDone
    /\ _parse_rule_block(current_rule_name, rule_body, comment).raised
    /\ Handler
    /\ UNCHANGED <<drc_vars, gen_vars, args, content, lines, i, block_vars, layers, rules, origin, output, out_file>>

\* a line with "=" that does not start with LAYER
AssignmentLine ==
    /\ pc = "parse" /\ i < Len(lines)
    /\ ~IsSkipped(CurLine) /\ ~IsLayer(CurLine) /\ ~IsBlockOpen(CurLine)
    /\ IsAssignment(CurLine)
    /\ LET nodes == _parse_assignment(CurLine)
       IN  /\ rules' = rules \o nodes
           /\ origin' = origin \o [k \in 1..Len(nodes) |-> i]
    /\ i' = i + 1
    /\ UNCHANGED <<drc_vars, gen_vars, args, main_vars, content, lines, block_vars, layers, output, pc>>

\* a variant of OtherLine with a plausible fault: the  i += 1  that ends the
\* loop body is missing
OtherLine_stays ==
    /\ pc = "parse" /\ i < Len(lines)
    /\ ~IsSkipped(CurLine) /\ ~IsLayer(CurLine) /\ ~IsBlockOpen(CurLine)
    /\ ~IsAssignment(CurLine)
    /\ i' = i
    /\ UNCHANGED <<drc_vars, gen_vars, args, main_vars, content, lines, block_vars, layers, rules, origin, output, pc>>

\* any other line
OtherLine ==
    /\ pc = "parse" /\ i < Len(lines)
    /\ ~IsSkipped(CurLine) /\ ~IsLayer(CurLine) /\ ~IsBlockOpen(CurLine)
    /\ ~IsAssignment(CurLine)
    /\ i' = i + 1
    /\ UNCHANGED <<drc_vars, gen_vars, args, main_vars, content, lines, block_vars, layers, rules, origin, output, pc>>

\* a variant of the call of generate that collects the parts in the field
\* output_lines of the generator instead of in a list of its own
PXLGenerator_generate_in_field(self_lines, lay, rul) ==
    LET parts == self_lines \o <<generate(lay, rul)>>
    IN  [returns |-> Flatten(parts), output_lines |-> parts,
         layers |-> lay, rules |-> rul]

\* one call generator.generate(parser) on a generator whose field
\* output_lines holds self_lines and a parser that holds the layers lay and
\* the rules rul: the text returned, and the three as the call leaves them.
\* The parts are collected in the local list output; sorted() builds a new
\* list of the layers; nothing is assigned to the generator or the parser.
PXLGenerator_generate(self_lines, lay, rul) ==
    [returns |-> generate(lay, rul), output_lines |-> self_lines,
     layers |-> lay, rules |-> rul]

\* a variant of Generate with a plausible fault: the layer table is sorted
\* in place
Generate_sorts_layers ==
    /\ pc = "parse" /\ i >= Len(lines)
    /\ layers' = sorted(layers)
    /\ output' = generate(layers', rules)
    /\ pc' = "done"
    /\ UNCHANGED <<drc_vars, gen_vars, args, main_vars, content, lines, i, block_vars, rules, origin>>

\* parse_file returned: one of the prints of the statistics or
\* print(f"Generating PXL...") raises; generate is not called
StatisticsRaise ==
    /\ pc = "parse" /\ i >= Len(lines)
    /\ args.verbose \/ args.stats
    /\ Handler
    /\ UNCHANGED <<drc_vars, gen_vars, args, content, lines, i, block_vars, layers, rules, origin, output, out_file>>

\* parse_file returned: generator.generate(parser)
Generate ==
    /\ pc = "parse" /\ i >= Len(lines)
    /\ output' = generate(layers, rules)
    /\ pc' = "done"
    /\ UNCHANGED <<drc_vars, gen_vars, args, main_vars, content, lines, i, block_vars, layers, rules, origin>>

\* with open(args.output, 'w') as f: f.write(pxl_code); the prints after it
\* return; return 0
WriteOutput ==
    /\ pc = "done"
    /\ out_file' = output
    /\ returncode' = 0
    /\ pc' = "exit"
    /\ UNCHANGED <<drc_vars, gen_vars, args, content, lines, i, block_vars, layers, rules, origin, output>>

\* the first n characters of the text whose lines are out, as lines
PartialFile(out, n) == Split(SubSeq(Join(out, NL), 1, n), NL)

\* the characters written before the write fails, in the runs of the model
FailAfter == 100
WriteLimits == {0, 1, FailAfter}

\* the output cannot be written: open() raises and the file is as it was, or
\* open() has truncated it and the write fails (at f.write or at the flush
\* on leaving the with block) with the file holding what was written until
\* then, a proper prefix of the text, cut between two characters
WriteFails ==
    /\ pc = "done"
    /\ \/ out_file' = out_file
       \/ \E n \in WriteLimits :
              /\ n < Len(Join(output, NL))
              /\ out_file' = PartialFile(output, n)
    /\ Handler
    /\ UNCHANGED <<drc_vars, gen_vars, args, content, lines, i, block_vars, layers, rules, origin, output>>

\* the output is written and one of the prints after the write raises:
\* print("Translation completed successfully!") or, by args, one of those
\* around it
SuccessMessageRaises ==
    /\ pc = "done"
    /\ out_file' = output
    /\ Handler
    /\ UNCHANGED <<drc_vars, gen_vars, args, content, lines, i, block_vars, layers, rules, origin, output>>

Next ==
    \/ ParsingMessageRaises
    \/ ReadInput
    \/ ReadFails
    \/ SkipLine
    \/ LayerLine
    \/ LayerLineRaises
    \/ OpenBlock
    \/ AccumulateLine
    \/ CloseBlock
    \/ CloseBlockRaises
    \/ AssignmentLine
    \/ OtherLine
    \/ StatisticsRaise
    \/ Generate
    \/ WriteOutput
    \/ WriteFails
    \/ SuccessMessageRaises

(***************************************************************************)
(* parse_file's loop as a function: what the loop, entered at index k with *)
(* the tables lay and rul, leaves in the tables when it ends, or that an   *)
(* exception left it (the tables then as they were at the raise).          *)
(***************************************************************************)
\* the inner loop: the index at which  while i < len(lines) and
\* brace_count > 0  ends
RECURSIVE BlockEnd(_, _, _)
BlockEnd(ls, k, count) ==
    IF k < Len(ls) /\ count > 0
    THEN BlockEnd(ls, k + 1, count + BraceDelta(ls[k + 1]))
    ELSE k

RECURSIVE parse_file_from(_, _, _, _)
parse_file_from(ls, k, lay, rul) ==
    IF k >= Len(ls) THEN [raised |-> FALSE, layers |-> lay, rules |-> rul]
    ELSE LET line == Strip(ls[k + 1])
         IN  IF IsSkipped(line) THEN parse_file_from(ls, k + 1, lay, rul)
             ELSE IF IsLayer(line)
             THEN LET r == _parse_layer(lay, line)
                  IN  IF r.raised
                      THEN [raised |-> TRUE, layers |-> lay, rules |-> rul]
                      ELSE parse_file_from(ls, k + 1, r.layers, rul)
             ELSE IF IsBlockOpen(line)
             THEN LET end == BlockEnd(ls, k + 1, BraceDelta(line))
                      body == Join(<<line>> \o SubSeq(ls, k + 2, end), NL)
                      r == _parse_rule_block(BlockName(line), body, BlockComment(line))
                  IN  IF r.raised
                      THEN [raised |-> TRUE, layers |-> lay, rules |-> rul]
                      ELSE parse_file_from(ls, end, lay, rul \o r.nodes)
             ELSE IF IsAssignment(line)
             THEN parse_file_from(ls, k + 1, lay, rul \o _parse_assignment(line))
             ELSE parse_file_from(ls, k + 1, lay, rul)

\* out_file when there is no output file: no text of the model has this line
NoFile == <<None>>

\* what the output file holds before the run, when there is one
OldOutput == <<Text(<<"o", "l", "d">>)>>

\* the inputs that are also run with no output file there before the run
AbsentOutputInputs == {DeckText(deck) : deck \in SeqsUpTo(CoreStatements, 1)} \cup {None}

\* args: -v and --stats given or not
Arguments == [verbose : BOOLEAN, stats : BOOLEAN]
NoFlags == [verbose |-> FALSE, stats |-> FALSE]

\* the inputs that are also run with -v and with --stats
FlaggedInputs == AbsentOutputInputs

\* The state after construction: SVRFParser() with empty tables, the input
\* file holding any deck of the model
Init ==
    /\ content \in {DeckText(deck) : deck \in Decks} \cup {None}
    /\ lines = <<>>
    /\ i = 0
    /\ current_rule_name = None
    /\ comment = None
    /\ brace_count = 0
    /\ rule_lines = <<>>
    /\ layers = <<>>
    /\ rules = <<>>
    /\ origin = <<>>
    /\ output = <<>>
    /\ out_file \in (IF content \in AbsentOutputInputs THEN {NoFile, OldOutput} ELSE {OldOutput})
    /\ returncode = NotReturned
    /\ args \in (IF content \in FlaggedInputs THEN Arguments ELSE {NoFlags})
    /\ pc = "read"
    /\ cal_violations = <<>>
    /\ icv_violations = <<>>
    /\ tolerance = 0
    /\ results = <<>>
    /\ todo = <<>>
    /\ cpc = "idle"
    /\ output_lines = <<>>
    /\ returned = <<>>

Spec == Init /\ [][Next]_vars

(***************************************************************************)
(* main is one synchronous thread with no suspension point: a step that    *)
(* can be taken is taken.  This is weak fairness of every step.  For the   *)
(* steps that call a parsing function the condition is written out,        *)
(*   WF_vars(A)  ==  []<>(~ENABLED <<A>>_vars) \/ []<><<A>>_vars,           *)
(* with the condition under which the code takes the step in the place of  *)
(* ENABLED.                                                                *)
(***************************************************************************)
PlainStep ==
    \/ ParsingMessageRaises
    \/ ReadFails
    \/ StatisticsRaise
    \/ SuccessMessageRaises
    \/ SkipLine
    \/ OtherLine
    \/ AccumulateLine
    \/ Generate
    \/ WriteOutput
    \/ WriteFails

ParsingStep ==
    \/ ReadInput
    \/ LayerLine
    \/ LayerLineRaises
    \/ OpenBlock
    \/ AssignmentLine
    \/ CloseBlock
    \/ CloseBlockRaises

\* the conditions of the parsing steps: the file can be read; the line at
\* the index is a LAYER line, the head of a block or an assignment; the
\* brace-matching loop is left
ParsingStepTaken ==
    \/ pc = "read" /\ content # None
    \/ /\ pc = "parse" /\ i < Len(lines)
       /\ ~IsSkipped(CurLine)
       /\ IsLayer(CurLine) \/ IsBlockOpen(CurLine) \/ IsAssignment(CurLine)
    \/ BlockDone

\* a parsing step is taken from the states of its condition and from no
\* other, and the only other step taken from them is the first print of
\* main raising
ParsingStepsAgree ==
    [][ /\ ParsingStep => ParsingStepTaken
        /\ ParsingStepTaken => ParsingStep \/ ParsingMessageRaises ]_vars

FairSpec ==
    /\ Spec
    /\ WF_vars(PlainStep)
    /\ []<>(~ParsingStepTaken) \/ []<><<ParsingStep>>_vars

(***************************************************************************)
(* Reading the generated text back: its sections, found by their titles.   *)
(***************************************************************************)
TitleAt(out, title) == CHOOSE k \in 1..Len(out) : out[k] = title

\* the lines between the LAYER DEFINITIONS banner and the DRC RULES banner,
\* without the blank lines that frame them
LayerSectionOf(out) ==
    Slice(out, TitleAt(out, txt_layer_definitions) + 3,
               TitleAt(out, txt_drc_rules) - 3)

\* the lines between the DRC RULES banner and the closing banner
RuleSectionOf(out) ==
    Slice(out, TitleAt(out, txt_drc_rules) + 3,
               TitleAt(out, txt_end_of_deck) - 2)

IsPrefix(s, t) == Len(s) <= Len(t) /\ SubSeq(t, 1, Len(s)) = s

StrictlyIncreasing(s) == \A k \in 1..(Len(s) - 1) : s[k] < s[k + 1]

\* the line  name = layer(gds_layer, gds_datatype);
LayerLineText(name, gds_layer, gds_datatype) ==
    name \o Text(<<" ", "=", " ", "l", "a", "y", "e", "r", "(">>) \o IntStr(gds_layer)
         \o Text(<<",", " ">>) \o IntStr(gds_datatype) \o Text(<<")", ";">>)

\* the layer a line of the layer section declares
LayerOfLine(line) ==
    CHOOSE k \in 1..Len(layers) :
        line = LayerLineText(layers[k].name, layers[k].gds_layer, layers[k].gds_datatype)

(***************************************************************************)
(* C1.  Order preservation.  In every step the parser leaves rules as it   *)
(* is or appends one node to its end, the nodes of rules come from         *)
(* statements in increasing source position (layer declarations between    *)
(* them change nothing), and the rule section of the generated text is the *)
(* rendering of the nodes one after the other in that same order.          *)
(***************************************************************************)
RenderedInOrder(out, nodes) ==
    RuleSectionOf(out) =
        Flatten([k \in 1..Len(nodes) |-> to_pxl(nodes[k]) \o <<<<>>>>])

C1_OrderPreserved ==
    [][ /\ IsPrefix(rules, rules')
        /\ Len(rules') <= Len(rules) + 1
        /\ Len(origin') = Len(rules')
        /\ StrictlyIncreasing(origin')
        /\ (\A k \in 1..Len(origin') : origin'[k] < i')
        /\ (pc' = "done" => RenderedInOrder(output', rules')) ]_vars

\* a finished run with a block's node and an assignment's node, with a layer declaration between their statements
C1_Witness ==
    /\ pc = "done"
    /\ Len(rules) = 2
    /\ rules[1].type = "BooleanOp" /\ rules[2].type = "WidthCheck"
    /\ \E j \in (origin[1] + 1)..(origin[2] - 1) : IsLayer(Strip(lines[j + 1]))
    /\ Len(layers) = 1

(***************************************************************************)
(* C2.  The layer section holds exactly one line                           *)
(* name = layer(gds_layer, gds_datatype); for each name of the layer table *)
(* and nothing else, and its lines are in non-decreasing order of          *)
(* gds_layer, whatever the order of declaration.                           *)
(***************************************************************************)
C2_LayerSectionSorted ==
    pc = "done" =>
        LET sect == LayerSectionOf(output)
        IN  /\ Len(sect) = Len(layers)
            /\ \A j \in 1..Len(layers) :
                   Cardinality({k \in 1..Len(sect) :
                       IsPrefix(layers[j].name \o Text(<<" ", "=">>), sect[k])}) = 1
            /\ \A j \in 1..Len(layers) :
                   \E k \in 1..Len(sect) :
                       sect[k] = LayerLineText(layers[j].name, layers[j].gds_layer,
                                               layers[j].gds_datatype)
            /\ \A k \in 1..(Len(sect) - 1) :
                   layers[LayerOfLine(sect[k])].gds_layer
                       <= layers[LayerOfLine(sect[k + 1])].gds_layer

\* LAYER A 20 then LAYER B 10: B's line comes first
C2_Witness ==
    /\ pc = "done"
    /\ Len(layers) = 2
    /\ layers[1].name = tA /\ layers[1].gds_layer = 20
    /\ layers[2].name = tB /\ layers[2].gds_layer = 10
    /\ LayerSectionOf(output) = <<LayerLineText(tB, 10, 0), LayerLineText(tA, 20, 0)>>

(***************************************************************************)
(* C3.  Layers with the same gds_layer.                                    *)
(***************************************************************************)
NamesOf(table) == [k \in 1..Len(table) |-> table[k].name]

\* C3 as claimed: lines of layers with the same gds_layer are ordered by
\* layer name
C3_TiesByName ==
    pc = "done" =>
        LET sect == LayerSectionOf(output)
        IN  \A k \in 1..Len(sect), m \in 1..Len(sect) :
                LET a == layers[LayerOfLine(sect[k])]
                    b == layers[LayerOfLine(sect[m])]
                IN  k < m /\ a.gds_layer = b.gds_layer => StrLess(a.name, b.name)

\* C3 as amended: lines of layers with the same gds_layer are in the order
\* in which their names were first declared in the source.  The layer table
\* keeps its names in the order of first declaration (a name is added at
\* the end, a redeclared name keeps its place), and lines with equal
\* gds_layer follow the order of the table.
C3_TiesByFirstDeclaration ==
    [][ /\ IsPrefix(NamesOf(layers), NamesOf(layers'))
        /\ (pc' = "done" =>
              LET sect == LayerSectionOf(output')
              IN  \A k \in 1..Len(sect), m \in 1..Len(sect) :
                      LET a == CHOOSE j \in 1..Len(layers') :
                                   sect[k] = LayerLineText(layers'[j].name,
                                       layers'[j].gds_layer, layers'[j].gds_datatype)
                          b == CHOOSE j \in 1..Len(layers') :
                                   sect[m] = LayerLineText(layers'[j].name,
                                       layers'[j].gds_layer, layers'[j].gds_datatype)
                      IN  k < m /\ layers'[a].gds_layer = layers'[b].gds_layer
                              => a < b) ]_vars

\* LAYER B 10 then LAYER A 10: B's line comes first
C3_Witness ==
    /\ pc = "done"
    /\ NamesOf(layers) = <<tB, tA>>
    /\ layers[1].gds_layer = 10 /\ layers[2].gds_layer = 10
    /\ LayerSectionOf(output) = <<LayerLineText(tB, 10, 0), LayerLineText(tA, 10, 0)>>

(***************************************************************************)
(* Rule blocks.  A step from a state where the brace-matching loop has     *)
(* ended (BlockDone) is the call of _parse_rule_block on rule_body; the    *)
(* node it appends, if any, is the last of rules'.                         *)
(***************************************************************************)
Keywords == <<kwWIDTH, kwEXTERNAL, kwINTERNAL, kwENC>>

\* the first keyword, in the order WIDTH, EXTERNAL, INTERNAL, ENC, that
\* occurs anywhere in the text; None when none occurs
TopKeyword(text) ==
    LET present == {k \in 1..4 : Contains(text, Keywords[k])}
    IN  IF present = {} THEN None ELSE Keywords[Min(present)]

VariantOf(kw) ==
    IF kw = kwWIDTH THEN "WidthCheck"
    ELSE IF kw = kwENC THEN "EnclosureCheck"
    ELSE "SpacingCheck"

\* word stands in text right after an occurrence of kw and white space
FollowsKeyword(text, kw, word) ==
    \E pos \in Occurrences(text, kw) :
        LET a == pos + Len(kw)
            s == RunEnd(text, a, SpaceChars)
        IN  /\ s >= a
            /\ MatchesAt(text, word, s + 1)
            /\ (s + Len(word) = Len(text) \/ ~InClass(text[s + Len(word) + 1], WordChars))

FirstLayerOf(node) ==
    IF node.type = "EnclosureCheck" THEN node.outer_layer ELSE node.layer

(***************************************************************************)
(* C4.  For every rule block _parse_rule_block appends at most one node;   *)
(* the node is of the variant of the highest-priority keyword present in   *)
(* the block (WIDTH, EXTERNAL, INTERNAL, ENC) and is built from the text   *)
(* that follows that keyword, wherever the keywords stand in the block; a  *)
(* block with none of the keywords appends nothing.                        *)
(***************************************************************************)
C4_KeywordPriority ==
    [][ BlockDone =>
          LET top == TopKeyword(rule_body)
          IN  /\ IsPrefix(rules, rules')
              /\ Len(rules') <= Len(rules) + 1
              /\ (top = None => rules' = rules)
              /\ (Len(rules') = Len(rules) + 1 =>
                    LET node == rules'[Len(rules')]
                    IN  /\ node.type = VariantOf(top)
                        /\ FollowsKeyword(rule_body, top, FirstLayerOf(node))) ]_vars

\* the block  W1 { ENC B C >= .25 WIDTH A < 0.5 }  has given a WidthCheck
C4_Witness ==
    /\ pc = "parse"
    /\ rule_lines = <<Words(<<tW1, tOpen, clENC, clWIDTH, tClose>>)>>
    /\ Len(rules) = 1
    /\ rules[1].type = "WidthCheck"
    /\ rules[1].layer = tA

(***************************************************************************)
(* C5.  The classifier looks at the body of the block only: a block        *)
(* NAME { K args OP value } with a well-formed body for keyword K gives    *)
(* exactly one node, of K's variant, with rule_name NAME, whatever NAME    *)
(* is.  (The code searches the whole block text, the name included.)       *)
(***************************************************************************)
WellFormedBodies ==
    { [text |-> clWIDTH, type |-> "WidthCheck"],
      [text |-> clEXTERNAL, type |-> "SpacingCheck"],
      [text |-> clINTERNAL, type |-> "SpacingCheck"],
      [text |-> clENC, type |-> "EnclosureCheck"] }

C5_BodyDecides ==
    [][ BlockDone =>
          \A n \in BlockNames, b \in WellFormedBodies :
              rule_lines = <<Words(<<n, tOpen, b.text, tClose>>)>> =>
                  /\ Len(rules') = Len(rules) + 1
                  /\ rules'[Len(rules')].type = b.type
                  /\ rules'[Len(rules')].rule_name = n ]_vars

(***************************************************************************)
(* C6.  Every check node has an operator that is one of                    *)
(* <, >, <=, >=, ==, !=.  (The code takes any run of the characters        *)
(* < > = ! as the operator.)                                               *)
(***************************************************************************)
ComparisonOperators ==
    { Text(<<"<">>), Text(<<">">>), Text(<<"<", "=">>), Text(<<">", "=">>), Text(<<"=", "=">>), Text(<<"!", "=">>) }

C6_OperatorIsComparison ==
    \A k \in 1..Len(rules) :
        rules[k].type # "BooleanOp" => rules[k].operator \in ComparisonOperators

(***************************************************************************)
(* C7.  The annotation of a rule block.                                    *)
(***************************************************************************)
\* the text of line before (excluding) position pos, stripped
Before(line, pos) == Strip(Slice(line, 1, pos - 1))
\* the text of line from position from to position to, stripped
Between(line, from, to) == Strip(Slice(line, from, to))

\* C7 as claimed: a block written NAME @ TEXT { ... } gives a node with
\* rule_name NAME and comment TEXT; with no @ on the opening line the
\* comment is absent and rule_name is NAME
C7_AnnotationBeforeBrace ==
    [][ BlockDone /\ Len(rules') = Len(rules) + 1 =>
          LET head == rule_lines[1]
              at == Find(head, <<chAt>>)
              brace == Find(head, <<chLBrace>>)
              node == rules'[Len(rules')]
          IN  /\ (at = 0 => /\ node.rule_name = Before(head, brace)
                            /\ node.comment = None)
              /\ (at > 0 /\ at < brace =>
                     /\ node.rule_name = Before(head, at)
                     /\ node.comment = Between(head, at + 1, brace - 1)) ]_vars

\* C7 as amended: a block whose opening line is NAME { @ TEXT (the
\* annotation after the opening brace, TEXT running to the end of the
\* opening line and holding no @ and no }) gives a node with rule_name
\* NAME and comment TEXT; with no @ on the opening line the comment is
\* absent and rule_name is NAME
C7_AnnotationAfterBrace ==
    [][ BlockDone /\ Len(rules') = Len(rules) + 1 =>
          LET head == rule_lines[1]
              at == Find(head, <<chAt>>)
              brace == Find(head, <<chLBrace>>)
              node == rules'[Len(rules')]
          IN  /\ (at = 0 => /\ node.rule_name = Before(head, brace)
                            /\ node.comment = None)
              /\ (/\ at > brace
                  /\ Count(head, chAt) = 1
                  /\ ~Contains(Slice(head, at, Len(head)), <<chRBrace>>)
                  => /\ node.rule_name = Before(head, brace)
                     /\ node.comment = Between(head, at + 1, Len(head))) ]_vars

\* the block  W1 { @ note / EXTERNAL A < 0.5 / }  has given a node named W1
\* with the comment "note"
C7_Witness ==
    /\ pc = "parse"
    /\ Len(rule_lines) = 3
    /\ rule_lines[1] = Words(<<tW1, tOpen, tAt, tNote>>)
    /\ Len(rules) = 1
    /\ rules[1].rule_name = tW1
    /\ rules[1].comment = tNote

(***************************************************************************)
(* Assignments.  A step from a state where parse_file is at a line is the  *)
(* handling of that line; the node it appends, if any, is the last of      *)
(* rules'.                                                                 *)
(***************************************************************************)
AtLine(line) == pc = "parse" /\ i < Len(lines) /\ CurLine = line

IsWord(w) == w # <<>> /\ \A k \in 1..Len(w) : InClass(w[k], WordChars)

\* the last line of a node's rendering: its assignment line
AssignmentLineOf(node) == to_pxl(node)[Len(to_pxl(node))]

(***************************************************************************)
(* C8.  result = OPERATION operand1 [operand2] gives a BooleanOp for every *)
(* letter-case spelling of AND, OR, NOT, with the operation stored in      *)
(* upper case.  (The code's pattern matches the upper-case spellings       *)
(* only.)                                                                  *)
(***************************************************************************)
C8_AnyCaseOperation ==
    [][ \A op \in Operations, tail \in {<<tA>>, <<tA, tB>>} :
            AtLine(Words(<<tR, tEq, op>> \o tail)) /\ Upper(op) \in {kwAND, kwOR, kwNOT}
            => /\ Len(rules') = Len(rules) + 1
               /\ rules'[Len(rules')].type = "BooleanOp"
               /\ rules'[Len(rules')].operation = Upper(op) ]_vars

(***************************************************************************)
(* C9.  The operands of NOT.                                               *)
(***************************************************************************)
\* C9 as claimed: every BooleanOp whose operation is NOT has one operand
\* and renders  result = not a;
C9_NotIsUnary ==
    \A k \in 1..Len(rules) :
        rules[k].type = "BooleanOp" /\ rules[k].operation = kwNOT
        => /\ rules[k].layer2 = None
           /\ AssignmentLineOf(rules[k])
                  = Words(<<rules[k].result_name, tEq, Text(<<"n", "o", "t">>), rules[k].layer1>>)
                        \o Text(<<";">>)

\* C9 as amended: a BooleanOp whose operation is NOT has one or two
\* operands.  For an assignment that begins  result = NOT a  the node
\* renders  result = not a;  when nothing, or something that does not start
\* with a word, follows the first operand, and  result = a not b;  when a
\* second word b follows it.
C9_NotOperands ==
    [][ \A tail \in OperandTails :
            tail # <<>> /\ AtLine(Words(<<tR, tEq, kwNOT>> \o tail))
            => /\ Len(rules') = Len(rules) + 1
               /\ LET node == rules'[Len(rules')]
                  IN  /\ node.type = "BooleanOp"
                      /\ node.result_name = tR
                      /\ node.operation = kwNOT
                      /\ node.layer1 = tail[1]
                      /\ IF Len(tail) >= 2 /\ IsWord(tail[2])
                         THEN /\ node.layer2 = tail[2]
                              /\ AssignmentLineOf(node)
                                     = Words(<<tR, tEq, tail[1], Text(<<"n", "o", "t">>), tail[2]>>)
                                           \o Text(<<";">>)
                         ELSE /\ node.layer2 = None
                              /\ AssignmentLineOf(node)
                                     = Words(<<tR, tEq, Text(<<"n", "o", "t">>), tail[1]>>)
                                           \o Text(<<";">>) ]_vars

\* R = NOT A B  has given a node with two operands, rendered  R = A not B;
C9_Witness ==
    /\ pc = "done"
    /\ Len(rules) = 1
    /\ rules[1].operation = kwNOT
    /\ rules[1].layer1 = tA /\ rules[1].layer2 = tB
    /\ RuleSectionOf(output) = <<Words(<<tR, tEq, tA, Text(<<"n", "o", "t">>), tB>>) \o Text(<<";">>), <<>>>>

(***************************************************************************)
(* C10.  A BooleanOp with operation AND or OR renders as one assignment    *)
(* line, after a // line when it has a comment (a comment with text):      *)
(* result = a and b;  result = a or b;  with two operands,                 *)
(* result = and a;  result = or a;  with one; and these are the lines the  *)
(* generated text holds for the node.                                      *)
(***************************************************************************)
LowerKeyword(operation) ==
    IF operation = kwAND THEN Text(<<"a", "n", "d">>) ELSE Text(<<"o", "r">>)

ExpectedBooleanLines(node) ==
    (IF node.comment # None /\ node.comment # <<>>
     THEN <<Text(<<"/", "/", " ">>) \o node.comment>> ELSE <<>>)
    \o <<(IF node.layer2 # None
          THEN Words(<<node.result_name, tEq, node.layer1,
                       LowerKeyword(node.operation), node.layer2>>)
          ELSE Words(<<node.result_name, tEq, LowerKeyword(node.operation),
                       node.layer1>>))
         \o Text(<<";">>)>>

\* the number of lines of the rule section before those of node k
RECURSIVE LinesBefore(_)
LinesBefore(k) ==
    IF k = 1 THEN 0 ELSE LinesBefore(k - 1) + Len(to_pxl(rules[k - 1])) + 1

C10_AndOrRendering ==
    \A k \in 1..Len(rules) :
        rules[k].type = "BooleanOp" /\ rules[k].operation \in {kwAND, kwOR}
        => LET want == ExpectedBooleanLines(rules[k])
           IN  /\ to_pxl(rules[k]) = want
               /\ Len(want) = (IF rules[k].comment \in {None, <<>>} THEN 1 ELSE 2)
               /\ (pc = "done" =>
                      Slice(RuleSectionOf(output), LinesBefore(k) + 1,
                            LinesBefore(k) + Len(want) + 1) = want \o <<<<>>>>)

\* R = AND A B  has given the one line  R = A and B;
C10_Witness ==
    /\ pc = "done"
    /\ rules = <<BooleanOp(tR, kwAND, tA, tB, None)>>
    /\ RuleSectionOf(output) = <<Words(<<tR, tEq, tA, Text(<<"a", "n", "d">>), tB>>) \o Text(<<";">>), <<>>>>

(***************************************************************************)
(* The checks.  The lines a check node is to render as, written out from   *)
(* the node's fields.                                                      *)
(***************************************************************************)
MeasurementLine(node) ==
    node.rule_name \o Text(<<"_", "v", "i", "o", "l", "a", "t", "i", "o", "n", "s", " ", "=", " ">>)
    \o (CASE node.type = "WidthCheck" ->
               Text(<<"w", "i", "d", "t", "h", "(">>) \o node.layer
          [] node.type = "SpacingCheck" ->
               Text(<<"e", "x", "t", "e", "r", "n", "a", "l", "_", "d", "i", "s", "t", "a", "n", "c", "e", "(">>) \o node.layer
                   \o Text(<<",", " ">>) \o node.layer
          [] node.type = "EnclosureCheck" ->
               Text(<<"e", "x", "t", "e", "r", "n", "a", "l", "_", "e", "n", "c", "l", "o", "s", "u", "r", "e", "(">>) \o node.outer_layer
                   \o Text(<<",", " ">>) \o node.inner_layer)
    \o Text(<<")", " ">>) \o node.operator \o Text(<<" ">>) \o node.value \o Text(<<";">>)

RegistrationLine(node) ==
    Text(<<"d", "r", "c", "_", "d", "e", "c", "k", "(">>) \o node.rule_name \o Text(<<"_", "v", "i", "o", "l", "a", "t", "i", "o", "n", "s", ",", " ", "\"">>)
    \o node.rule_name \o Text(<<"\"", ",", " ", "\"">>)
    \o (CASE node.type = "WidthCheck" -> Text(<<"W", "i", "d", "t", "h">>)
          [] node.type = "SpacingCheck" -> Text(<<"S", "p", "a", "c", "i", "n", "g">>)
          [] node.type = "EnclosureCheck" -> Text(<<"E", "n", "c", "l", "o", "s", "u", "r", "e">>))
    \o Text(<<" ", "v", "i", "o", "l", "a", "t", "i", "o", "n", ":", " ">>) \o node.operator \o Text(<<" ">>) \o node.value
    \o Text(<<"u", "m", "\"", ")", ";">>)

CheckTypes == {"WidthCheck", "SpacingCheck", "EnclosureCheck"}

\* the lines of the rule section that node k's rendering takes
SectionLinesOf(k) ==
    Slice(RuleSectionOf(output), LinesBefore(k) + 1, LinesBefore(k) + Len(to_pxl(rules[k])))

(***************************************************************************)
(* C11.  For every WidthCheck of the IR the output holds the measurement   *)
(* line  <rule>_violations = width(<layer>) <op> <value>;  and, on the     *)
(* line right after it, the registration  drc_deck(<rule>_violations,      *)
(* "<rule>", "Width violation: <op> <value>um");  with the same rule name, *)
(* the variable assigned on the line before, and the same operator and     *)
(* value token as the measurement line.                                    *)
(***************************************************************************)
C11_WidthRegistration ==
    \A k \in 1..Len(rules) :
        rules[k].type = "WidthCheck"
        => LET text == to_pxl(rules[k])
               n == Len(text)
           IN  /\ n >= 2
               /\ text[n - 1] = MeasurementLine(rules[k])
               /\ text[n] = RegistrationLine(rules[k])
               /\ (pc = "done" =>
                     /\ SectionLinesOf(k) = text
                     /\ \E j \in 1..(Len(output) - 1) :
                            /\ output[j] = MeasurementLine(rules[k])
                            /\ output[j + 1] = RegistrationLine(rules[k]))

\* W1 { WIDTH A < 0.5 }  has given the two lines of scenario 1
C11_Witness ==
    /\ pc = "done"
    /\ rules = <<WidthCheck(tW1, tA, tLt, tHalf, None)>>
    /\ RuleSectionOf(output)
         = << Text(<<"W", "1", "_", "v", "i", "o", "l", "a", "t", "i", "o", "n", "s", " ", "=", " ", "w", "i", "d", "t", "h", "(", "A", ")", " ", "<", " ", "0", ".", "5", ";">>),
              Text(<<"d", "r", "c", "_", "d", "e", "c", "k", "(", "W", "1", "_", "v", "i", "o", "l", "a", "t", "i", "o", "n", "s", ",", " ", "\"", "W", "1", "\"", ",", " ", "\"", "W", "i", "d", "t", "h", " ", "v", "i", "o", "l", "a", "t", "i", "o", "n", ":", " ", "<", " ", "0", ".", "5", "u", "m", "\"", ")", ";">>),
              <<>> >>

(***************************************************************************)
(* C12.  A Width, Spacing or Enclosure node renders as exactly two lines,  *)
(* after a // line when it has a comment: the measurement with  width(l),  *)
(* external_distance(l, l)  or  external_enclosure(outer, inner),  then    *)
(* its drc_deck registration.  A block with EXTERNAL and a block with      *)
(* INTERNAL that are otherwise the same give the same node, so the same    *)
(* text.                                                                   *)
(***************************************************************************)
C12_TwoLinesPerCheck ==
    /\ [](\A k \in 1..Len(rules) :
             rules[k].type \in CheckTypes
             => /\ to_pxl(rules[k])
                     = (IF rules[k].comment \in {None, <<>>} THEN <<>>
                        ELSE <<Text(<<"/", "/", " ">>) \o rules[k].comment>>)
                       \o <<MeasurementLine(rules[k]), RegistrationLine(rules[k])>>
                /\ (pc = "done" => SectionLinesOf(k) = to_pxl(rules[k])))
    /\ [][ \A kw \in {kwEXTERNAL, kwINTERNAL}, c \in TwinConstraints :
              BlockDone /\ rule_lines = <<TwinBlock(kw, c)>>
              => rules' = Append(rules, SpacingCheck(tW1, c.layer, c.operator,
                                                     c.value, None)) ]_vars

\* W1 { INTERNAL A <= 1 }  has given the text that  W1 { EXTERNAL A <= 1 }  gives
C12_Witness ==
    /\ pc = "done"
    /\ lines = <<Words(<<tW1, tOpen, kwINTERNAL, tA, Text(<<"<", "=">>), tOne, tClose>>)>>
    /\ RuleSectionOf(output)
         = << Text(<<"W", "1", "_", "v", "i", "o", "l", "a", "t", "i", "o", "n", "s", " ", "=", " ", "e", "x", "t", "e", "r", "n", "a", "l", "_", "d", "i", "s", "t", "a", "n", "c", "e", "(", "A", ",", " ", "A", ")", " ", "<", "=", " ", "1", ".", "0", ";">>),
              Text(<<"d", "r", "c", "_", "d", "e", "c", "k", "(", "W", "1", "_", "v", "i", "o", "l", "a", "t", "i", "o", "n", "s", ",", " ", "\"", "W", "1", "\"", ",", " ", "\"", "S", "p", "a", "c", "i", "n", "g", " ", "v", "i", "o", "l", "a", "t", "i", "o", "n", ":", " ", "<", "=", " ", "1", ".", "0", "u", "m", "\"", ")", ";">>),
              <<>> >>

(***************************************************************************)
(* Malformed lines.  parse_file reads the text of the file, deletes the    *)
(* block comments from the whole of it and only then splits it into lines: *)
(* a line put into the file is put into the text as it is read, before the *)
(* comments are deleted.                                                   *)
(***************************************************************************)
\* SVRFParser.parse_file on a file that holds the text: whether it raised,
\* and the layers and the rules it has made
parse_file(text) ==
    parse_file_from(Split(StripBlockComments(text), NL), 0, <<>>, <<>>)

MalformedLines ==
    { Words(<<kwLAYER, tC, Text(<<"x", "3">>)>>),           \* bad layer line
      Words(<<tW1, tOpen, kwWIDTH, tLt, tClose>>),       \* unrecognized block body
      Words(<<Text(<<"U">>), tOpen>>),                       \* unrecognized opening line
      Words(<<tR, tEq, Text(<<"X", "O", "R">>), tA, tB>>),   \* malformed assignment
      Words(<<kwLAYER, tC, Text(<<"x", "3">>), txt_copen>>),  \* ... that opens a comment
      Words(<<tR, tEq, Text(<<"X", "O", "R">>), tA, tB, txt_cclose>>) }  \* ... that closes one

InsertAt(ls, k, line) == SubSeq(ls, 1, k) \o <<line>> \o SubSeq(ls, k + 1, Len(ls))

\* the lines of the file as it is read
RawLines == Split(content, NL)

\* the text with the line put in as a line of its own after its first k lines
InsertLine(text, k, line) == Join(InsertAt(Split(text, NL), k, line), NL)

\* The parser is between statements exactly when it is at the top of the
\* outer loop (pc = "parse"), about to read line i + 1 of the lines without
\* comments.  The places of the file that are this place: after the first k
\* lines of the file, where no comment runs from line k to line k + 1 (the
\* comments deleted from the text are those deleted from the two parts) and
\* the first k lines are i lines once the comments are deleted.  The end of
\* the file is between statements when the last block of the deck was closed.
PositionsHere ==
    {k \in 0..Len(RawLines) :
        IF k = 0 THEN i = 0
        ELSE IF k = Len(RawLines) THEN i = Len(lines) /\ brace_count <= 0
        ELSE LET before == StripBlockComments(Join(SubSeq(RawLines, 1, k), NL))
                 after == StripBlockComments(Join(SubSeq(RawLines, k + 1, Len(RawLines)), NL))
             IN  /\ StripBlockComments(content) = before \o <<NL>> \o after
                 /\ Len(Split(before, NL)) = i}

\* the line is a whole statement by itself: it has no "{", or its "}" are as
\* many as its "{" or more; and it holds no delimiter of a block comment
WholeStatement(line) ==
    /\ ~Contains(line, <<chLBrace>>) \/ BraceDelta(line) <= 0
    /\ ~Contains(line, txt_copen)
    /\ ~Contains(line, txt_cclose)

\* the two forms of the loop agree: the run ends as the function says
ParseAgrees ==
    LET whole == parse_file_from(lines, 0, <<>>, <<>>)
    IN  /\ pc \in {"done", "exit"} \/ output # <<>>
              => whole = [raised |-> FALSE, layers |-> layers, rules |-> rules]
        /\ pc \in {"error", "raised"} /\ lines # <<>> /\ output = <<>>
              => /\ whole.layers = layers /\ whole.rules = rules
                 /\ i < Len(lines) => whole.raised

\* C13 as claimed: a line that matches no statement shape, put between
\* statements of any deck, leaves the layers and the rules of the deck as
\* they are without it
C13_MalformedLineIgnored ==
    pc = "parse" =>
        LET without == parse_file(content)
        IN  \A k \in PositionsHere : \A line \in MalformedLines :
                parse_file(InsertLine(content, k, line)) = without

\* C13 as amended: the same, for a malformed line that is a whole statement
\* by itself and holds neither "/*" nor "*/"
C13_MalformedStatementIgnored ==
    [](pc = "parse" =>
          LET without == parse_file(content)
          IN  \A k \in PositionsHere : \A line \in MalformedLines :
                  WholeStatement(line)
                  => parse_file(InsertLine(content, k, line)) = without)

\* between  LAYER A 20  and  R = AND A B :  with  R = XOR A B  put in, the
\* parse ends with the one layer and the one rule of the deck
C13_Witness ==
    /\ pc = "parse" /\ i = 1
    /\ lines = << Words(<<kwLAYER, tA, Text(<<"2", "0">>)>>),
                  Words(<<tR, tEq, kwAND, tA, tB>>) >>
    /\ 1 \in PositionsHere
    /\ parse_file(InsertLine(content, 1, Words(<<tR, tEq, Text(<<"X", "O", "R">>), tA, tB>>)))
         = [raised |-> FALSE,
            layers |-> <<LayerDef(tA, 20, 0)>>,
            rules |-> <<BooleanOp(tR, kwAND, tA, tB, None)>>]

(***************************************************************************)
(* C14.  A check whose value token the pattern takes (digits and dots) but *)
(* which is no number (more than one dot, or no digit) raises an exception *)
(* that nothing in the parser catches: the run ends there with a non-zero  *)
(* code (main returns 1; when the print of its handler raises as well, the *)
(* exception leaves main and the interpreter ends the process with a       *)
(* non-zero status), the tables as they were, and no statement after the   *)
(* block is parsed.                                                        *)
(***************************************************************************)
\* main is over: it returned, or an exception left it
MainOver == pc \in {"exit", "error", "raised"}

\* the run ended with a non-zero code
NonZero == (pc = "error" /\ returncode = 1) \/ (pc = "raised" /\ returncode = NotReturned)

IsNumber(v) == Count(v, chDot) <= 1 /\ \E k \in 1..Len(v) : InClass(v[k], Digits)

\* the blocks of the model whose value token is no number
BadValueBlocks ==
    { ValueBlock(kw, v) : kw \in {kwWIDTH, kwENC}, v \in {w \in Values : ~IsNumber(w)} }
    \cup { Words(<<Text(<<"E", "1">>), tOpen, kwENC, tB, tA, tGt, tBadNum, tClose>>) }

C14_BadNumberIsFatal ==
    /\ [][ BlockDone /\ rule_lines \in {<<b>> : b \in BadValueBlocks}
           => /\ NonZero'
              /\ UNCHANGED <<i, layers, rules, output, out_file>> ]_vars
    /\ [][ ~MainOver ]_vars

\* E1 { ENC B A > 1.2.3 }  then  R = AND A B :  the run has ended with 1
\* at the block, the assignment after it never parsed
C14_Witness ==
    /\ pc = "error" /\ returncode = 1
    /\ lines = << Words(<<Text(<<"E", "1">>), tOpen, kwENC, tB, tA, tGt, tBadNum, tClose>>),
                  Words(<<tR, tEq, kwAND, tA, tB>>) >>
    /\ i = 1
    /\ rules = <<>>

(***************************************************************************)
(* C15.  The run ends with the code 0 exactly when reading, parsing,       *)
(* generating and writing have all completed, and with a non-zero code     *)
(* when the input cannot be read, when parsing raises, or when the output  *)
(* cannot be written; when reading or parsing fails the output file is     *)
(* never opened, so it is as it was before the run (or still absent).      *)
(***************************************************************************)
\* the input was read and split, parse_file returned with the tables of the
\* deck, generate returned their text, and the output file holds that text
AllCompleted ==
    /\ content # None
    /\ lines = Split(StripBlockComments(content), NL)
    /\ parse_file_from(lines, 0, <<>>, <<>>)
         = [raised |-> FALSE, layers |-> layers, rules |-> rules]
    /\ output = generate(layers, rules)
    /\ out_file = output

\* C15 as claimed: the code is 0 exactly when all four have completed and
\* non-zero otherwise, and the output file is untouched until the write
C15_ReturnCode ==
    /\ [](/\ returncode \in {NotReturned, 0, 1}
          /\ (returncode = 0) = (pc = "exit")
          /\ MainOver => ((returncode = 0) <=> AllCompleted)
          /\ MainOver /\ ~AllCompleted => NonZero)
    /\ [][ /\ (pc = "read" /\ content = None => NonZero')
           /\ (pc \in {"read", "parse", "block"} => out_file' = out_file)
           /\ (pc' = "exit" => pc = "done") ]_vars

\* where the code parts from C15:  LAYER A 20  has been read, parsed,
\* generated and written, the file holds the whole text, and main has
\* returned 1, a print after the write having raised
C15_Divergence ==
    /\ pc = "error" /\ returncode = 1
    /\ lines = <<Words(<<kwLAYER, tA, Text(<<"2", "0">>)>>)>>
    /\ AllCompleted

\* what holds of the return code: 0 only when all four have completed (not
\* whenever they have), a non-zero code when one of them has not, and the
\* output file untouched until the write
C15_ZeroOnlyWhenComplete ==
    /\ [](/\ returncode \in {NotReturned, 0, 1}
          /\ (returncode = 0) = (pc = "exit")
          /\ pc = "exit" => AllCompleted
          /\ MainOver /\ ~AllCompleted => NonZero)
    /\ [][ /\ (pc = "read" /\ content = None => NonZero')
           /\ (pc \in {"read", "parse", "block"} => out_file' = out_file)
           /\ (pc' = "exit" => pc = "done") ]_vars

(***************************************************************************)
(* C16.  The layer table.  What each declaration line of the model says,   *)
(* read off the line: the name, the layer number and the datatype (0 when  *)
(* left out) for a line the pattern takes and whose numbers int()          *)
(* converts; ok = FALSE for a line the pattern does not take and for a     *)
(* line with a number of more digits than int() converts, at which the     *)
(* parser raises.  LAYER B 07 x  is taken: the pattern is matched at the   *)
(* start of the line and the rest is not looked at, a comment delimiter    *)
(* or a second declaration on the line included.                           *)
(***************************************************************************)
Declarations ==
    { [line |-> Words(<<kwLAYER, tA, Text(<<"2", "0">>)>>), ok |-> TRUE,
       name |-> tA, gds_layer |-> 20, gds_datatype |-> 0],
      [line |-> Words(<<kwLAYER, tB, Text(<<"1", "0">>)>>), ok |-> TRUE,
       name |-> tB, gds_layer |-> 10, gds_datatype |-> 0],
      [line |-> Words(<<kwLAYER, tA, Text(<<"1", "0">>)>>), ok |-> TRUE,
       name |-> tA, gds_layer |-> 10, gds_datatype |-> 0],
      [line |-> Words(<<kwLAYER, tC, Text(<<"1", "0">>), Text(<<"5">>)>>), ok |-> TRUE,
       name |-> tC, gds_layer |-> 10, gds_datatype |-> 5],
      [line |-> Words(<<kwLAYER, tB, Text(<<"0", "7">>), Text(<<"x">>)>>), ok |-> TRUE,
       name |-> tB, gds_layer |-> 7, gds_datatype |-> 0],
      [line |-> Words(<<kwLAYER, tA, Text(<<"5">>)>>), ok |-> TRUE,
       name |-> tA, gds_layer |-> 5, gds_datatype |-> 0],
      [line |-> Words(<<kwLAYER, tA, tMostDigits, tMostDigits>>), ok |-> TRUE,
       name |-> tA, gds_layer |-> 7, gds_datatype |-> 7],
      [line |-> Words(<<kwLAYER, tA, Text(<<"2", "0">>), txt_copen, Text(<<"n", "o", "t", "e">>)>>),
       ok |-> TRUE, name |-> tA, gds_layer |-> 20, gds_datatype |-> 0],
      [line |-> Words(<<kwLAYER, tB, Text(<<"1", "0">>), txt_cclose>>), ok |-> TRUE,
       name |-> tB, gds_layer |-> 10, gds_datatype |-> 0],
      [line |-> Words(<<kwLAYER, tA, Text(<<"2", "0">>), <<>>, kwLAYER, tB, Text(<<"1", "0">>)>>),
       ok |-> TRUE, name |-> tA, gds_layer |-> 20, gds_datatype |-> 0],
      [line |-> Words(<<kwLAYER, tC, Text(<<"x", "3">>)>>), ok |-> FALSE,
       name |-> tC, gds_layer |-> 0, gds_datatype |-> 0],
      [line |-> Words(<<kwLAYER, tA, tTooManyDigits>>), ok |-> FALSE,
       name |-> tA, gds_layer |-> 0, gds_datatype |-> 0],
      [line |-> Words(<<kwLAYER, tA, tOne, tTooManyDigits>>), ok |-> FALSE,
       name |-> tA, gds_layer |-> 0, gds_datatype |-> 0] }

\* the lines (counted from 1) at which a statement of the deck begins, from
\* line k + 1 on: a line that opens a block takes the lines of the block
\* with it, and a LAYER line among those is no declaration
RECURSIVE StatementLines(_, _)
StatementLines(ls, k) ==
    IF k >= Len(ls) THEN {}
    ELSE LET line == Strip(ls[k + 1])
         IN  {k + 1} \cup
             StatementLines(ls, IF ~IsSkipped(line) /\ ~IsLayer(line) /\ IsBlockOpen(line)
                                THEN BlockEnd(ls, k + 1, BraceDelta(line))
                                ELSE k + 1)

\* the statements parsed so far that declare the name and are well formed
\* (after a raise i is still at the statement that raised)
DeclaredAt(name) ==
    {k \in StatementLines(lines, 0) :
        /\ k <= i
        /\ \E d \in Declarations : d.ok /\ d.name = name /\ Strip(lines[k]) = d.line}

DeclarationAt(k) == CHOOSE d \in Declarations : Strip(lines[k]) = d.line

\* C16: a name declared more than once has exactly one LayerDef in the
\* table, with the layer number and datatype (0 when left out) of the last
\* well-formed declaration of it; a declaration line that fails the pattern,
\* or at which the parser raises, leaves the table as it is
C16_LastDeclarationWins ==
    /\ [](pc \in {"parse", "done", "exit", "error", "raised"}
          => /\ \A j, k \in 1..Len(layers) : layers[j].name = layers[k].name => j = k
             /\ \A name \in {tA, tB, tC} :
                   IF DeclaredAt(name) = {}
                   THEN \A k \in 1..Len(layers) : layers[k].name # name
                   ELSE LET d == DeclarationAt(Max(DeclaredAt(name)))
                        IN  \E k \in 1..Len(layers) :
                                layers[k] = LayerDef(name, d.gds_layer, d.gds_datatype))
    /\ [][ \A d \in Declarations : AtLine(d.line) /\ ~d.ok => layers' = layers ]_vars

\* LAYER A 20 / LAYER C 10 5 / LAYER A 10 :  A holds 10 in the place where
\* it was first declared, C is as its one declaration left it
C16_Witness ==
    /\ pc = "done"
    /\ lines = << Words(<<kwLAYER, tA, Text(<<"2", "0">>)>>),
                  Words(<<kwLAYER, tC, Text(<<"1", "0">>), Text(<<"5">>)>>),
                  Words(<<kwLAYER, tA, Text(<<"1", "0">>)>>) >>
    /\ layers = <<LayerDef(tA, 10, 0), LayerDef(tC, 10, 5)>>

(***************************************************************************)
(* C17.  generate leaves the RuleDeck as it was (the layers, their         *)
(* insertion order, the rules), and a second call on the same RuleDeck     *)
(* returns the text the first call returned.  The function is called here  *)
(* on a generator of its own, up to MaxCalls times, on every RuleDeck of   *)
(* a few layers and rules: a table of layers with distinct names in any    *)
(* insertion order, and a list of rules in which a rule may come twice.    *)
(***************************************************************************)
MaxCalls == 3       \* calls of generate on one generator
MaxGenLayers == 2   \* layers of a RuleDeck handed to generate
MaxGenRules == 2    \* rules of a RuleDeck handed to generate

GenLayers == {LayerDef(tA, 20, 0), LayerDef(tB, 10, 0), LayerDef(tC, 10, 5)}

GenRules ==
    { WidthCheck(tW1, tA, tLt, tHalf, None),
      SpacingCheck(Text(<<"S", "1">>), tB, Text(<<">", "=">>), Text(<<"1", ".", "0">>), tNote),
      EnclosureCheck(Text(<<"E", "1">>), tB, tA, tGt, tHalf, None),
      BooleanOp(tR, kwAND, tA, tB, None),
      BooleanOp(tR, kwNOT, tA, None, tNote) }

RuleDecks ==
    {[layers |-> lay, rules |-> rul] :
        lay \in {t \in {<<>>} \cup SeqsUpTo(GenLayers, MaxGenLayers) :
                    \A j, k \in 1..Len(t) : t[j].name = t[k].name => j = k},
        rul \in {<<>>} \cup SeqsUpTo(GenRules, MaxGenRules)}

\* generator = PXLGenerator() and a parser that holds a RuleDeck
InitGen ==
    /\ \E deck \in RuleDecks : layers = deck.layers /\ rules = deck.rules
    /\ output_lines = <<>>
    /\ returned = <<>>
    /\ pc = "generator"
    /\ content = None /\ lines = <<>> /\ i = 0
    /\ current_rule_name = None /\ comment = None /\ brace_count = 0
    /\ rule_lines = <<>> /\ origin = <<>>
    /\ output = <<>> /\ out_file = NoFile /\ returncode = NotReturned
    /\ args = NoFlags
    /\ cal_violations = <<>> /\ icv_violations = <<>> /\ tolerance = 0
    /\ results = <<>> /\ todo = <<>> /\ cpc = "idle"

\* generator.generate(parser), once more
GenerateCall ==
    /\ pc = "generator"
    /\ Len(returned) < MaxCalls
    /\ LET call == PXLGenerator_generate(output_lines, layers, rules)
       IN  /\ returned' = Append(returned, call.returns)
           /\ output_lines' = call.output_lines
           /\ layers' = call.layers
           /\ rules' = call.rules
    /\ UNCHANGED <<drc_vars, args, main_vars, content, lines, i, block_vars,
                   origin, output, pc>>

NextGen == GenerateCall

SpecGen == InitGen /\ [][NextGen]_vars

\* C17: a call of generate leaves the layers, their order and the rules as
\* they were, and every call on the same RuleDeck returns the text the
\* first call returned
C17_GenerateIsPure ==
    /\ [][ returned' # returned => layers' = layers /\ rules' = rules ]_vars
    /\ [](\A k \in 1..Len(returned) : returned[k] = returned[1])

\* generate was called twice on a table that holds A (20) before B (10) and
\* one rule: both texts list B before A, and the table still holds A first
C17_Witness ==
    /\ pc = "generator"
    /\ Len(returned) = 2
    /\ NamesOf(layers) = <<tA, tB>>
    /\ layers[1].gds_layer = 20 /\ layers[2].gds_layer = 10
    /\ Len(rules) = 1
    /\ LayerSectionOf(returned[1])[1] = LayerLineText(tB, 10, 0)
    /\ LayerSectionOf(returned[2])[1] = LayerLineText(tB, 10, 0)

(***************************************************************************)
(* C20.  A line with "{" that opens a rule block takes the physical lines  *)
(* after it into the block until the count of "{" minus "}" is first at    *)
(* zero or below, or the input ends.  The lines taken in are not           *)
(* statements: while the block is open no layer and no node is added, and  *)
(* the block as a whole adds at most one check node.  The line after the   *)
(* last line of the block is a statement of its own.                       *)
(***************************************************************************)
\* "{" minus "}" over the first n lines of the block
Depth(n) ==
    LET text == Flatten(SubSeq(rule_lines, 1, n))
    IN  Cardinality({k \in 1..Len(text) : text[k] = chLBrace})
          - Cardinality({k \in 1..Len(text) : text[k] = chRBrace})

C20_BlockAccumulation ==
    /\ [](pc = "block"
          => LET n == Len(rule_lines)
             IN  /\ n >= 1 /\ n <= i
                 /\ rule_lines[1] = Strip(lines[i - n + 1])
                 /\ \A m \in 2..n : rule_lines[m] = lines[i - n + m]
                 /\ \A m \in 1..(n - 1) : Depth(m) > 0
                 /\ brace_count = Depth(n))
    /\ [][ pc = "block"
           => /\ layers' = layers
              /\ IF Depth(Len(rule_lines)) > 0 /\ i < Len(lines)
                 THEN /\ pc' = "block"
                      /\ rule_lines' = Append(rule_lines, lines[i + 1])
                      /\ i' = i + 1
                      /\ rules' = rules
                 ELSE /\ pc' \in {"parse", "error", "raised"}
                      /\ i' = i
                      /\ \/ rules' = rules
                         \/ /\ Len(rules') = Len(rules) + 1
                            /\ IsPrefix(rules, rules')
                            /\ rules'[Len(rules')].type \in CheckTypes
                            /\ rules'[Len(rules')].rule_name = current_rule_name ]_vars
    /\ [][ /\ AtLine(Words(<<tR, tEq, kwAND, tA, tB>>))
              => rules' = Append(rules, BooleanOp(tR, kwAND, tA, tB, None))
           /\ AtLine(Words(<<kwLAYER, tA, Text(<<"2", "0">>)>>))
              => \E k \in 1..Len(layers') : layers'[k] = LayerDef(tA, 20, 0) ]_vars

\* S1 { @ note / EXTERNAL B >= 1 / }  has taken its three lines in and given
\* one node; the  R = AND A B  after it is a statement of its own
C20_Witness ==
    /\ pc = "done"
    /\ lines = << Words(<<Text(<<"S", "1">>), tOpen, tAt, tNote>>),
                  Words(<<<<>>, kwEXTERNAL, tB, Text(<<">", "=">>), tOne>>),
                  tClose,
                  Words(<<tR, tEq, kwAND, tA, tB>>) >>
    /\ Len(rules) = 2
    /\ rules[1].type = "SpacingCheck" /\ rules[1].rule_name = Text(<<"S", "1">>)
    /\ rules[2] = BooleanOp(tR, kwAND, tA, tB, None)
    /\ origin = <<0, 3>>

\* U {  has taken  LAYER A 20  and  R = AND A B  in: no layer and no node
C20_SwallowedStatements ==
    /\ pc = "done"
    /\ lines = << Words(<<Text(<<"U">>), tOpen>>),
                  Words(<<kwLAYER, tA, Text(<<"2", "0">>)>>),
                  Words(<<tR, tEq, kwAND, tA, tB>>) >>
    /\ rule_lines = lines
    /\ layers = <<>> /\ rules = <<>>

(***************************************************************************)
(* compare_drc_results.py: Violation and DRCComparator.                    *)
(*                                                                         *)
(* A coordinate is an integer k, negative or not, standing for the float   *)
(* of the decimal 0.0004 * k, and the tolerance a whole number t standing  *)
(* for the float of 0.0001 * t: the fixed 0.001 of __eq__ is t = 10, and   *)
(* round(x, 3) is the integer nearest to 0.4 * k (in units of 0.001),      *)
(* which is never a tie.  A rule is its name, a str.                       *)
(***************************************************************************)
Violation(rule, x, y, type) == [rule |-> rule, x |-> x, y |-> y, type |-> type]

Abs(n) == IF n < 0 THEN -n ELSE n

\* round(self.x, 3), in units of 0.001: the floor of 0.4 * x + 0.5 (-0.0 and
\* 0.0 are equal and hash alike)
round3(x) == (4 * x + 5) \div 10

\* what __hash__ hashes
Violation_hash(self) == <<self.rule, round3(self.x), round3(self.y)>>

\* the float of a coordinate (a number of steps of 0.0004) and of a
\* tolerance (a number of steps of 0.0001): what float() gives the decimal.
\* float() of a negative decimal is the negative of the float of its
\* magnitude: a coordinate's float is its sign and the double of its
\* magnitude
CoordFloat(k) == [neg |-> k < 0, abs |-> DoubleOfDecimal(BigOfNat(4 * Abs(k)), -4)]
TolFloat(t) == DoubleOfDecimal(BigOfNat(t), -4)

\* d1 < d2, and abs(d1 - d2) as the subtraction of doubles rounds it
DoubleLess(d1, d2) ==
    LET e == Min({d1.e, d2.e})
    IN  BigLess(BigTimesPow2(d1.m, d1.e - e), BigTimesPow2(d2.m, d2.e - e))

\* a double by its mantissa at the exponent e <= d.e
Aligned(d, e) == BigTimesPow2(d.m, d.e - e)

\* the double nearest to n * 2^e
DoubleOfBinary(n, e) ==
    NearestDouble(BigTimesPow2(n, Max({e, 0})), BigPow2(Max({0 - e, 0})))

\* abs(f1 - f2) for two floats with signs: the difference of the magnitudes
\* when the signs are the same, their sum when not, rounded once
DoubleAbsDiff(f1, f2) ==
    LET e == Min({f1.abs.e, f2.abs.e})
        m1 == Aligned(f1.abs, e)
        m2 == Aligned(f2.abs, e)
    IN  DoubleOfBinary(IF f1.neg = f2.neg THEN BigAbsDiff(m1, m2) ELSE BigAdd(m1, m2), e)

\* abs(a - b) < tol on the floats of the coordinates a, b and of the
\* tolerance.  The floats and their difference are within 1e-9 of the
\* decimals (coordinates below 200000), so the decimals decide unless their
\* difference is the tolerance itself; there the rounding of float() and of
\* the subtraction decides.
AbsDiffLess(a, b, tol) ==
    IF 4 * Abs(a - b) # tol THEN 4 * Abs(a - b) < tol
    ELSE DoubleLess(DoubleAbsDiff(CoordFloat(a), CoordFloat(b)), TolFloat(tol))

\* __eq__ between two Violations
Violation_eq(self, other) ==
    /\ self.rule = other.rule
    /\ AbsDiffLess(self.x, other.x, 10)
    /\ AbsDiffLess(self.y, other.y, 10)

\* set(viols): an element is not added when the set already holds one with
\* the same hash that it is equal to
set_of(viols) ==
    { viols[j] : j \in { j \in 1..Len(viols) :
                           \A k \in 1..(j - 1) :
                               ~(/\ Violation_hash(viols[k]) = Violation_hash(viols[j])
                                 /\ Violation_eq(viols[k], viols[j])) } }

_violations_equal(v1, v2, tol) ==
    /\ v1.rule = v2.rule
    /\ AbsDiffLess(v1.x, v2.x, tol)
    /\ AbsDiffLess(v1.y, v2.y, tol)

_violations_match(cal_viols, icv_viols, tol) ==
    IF Len(cal_viols) # Len(icv_viols) THEN FALSE
    ELSE \A cal_viol \in set_of(cal_viols) :
             \E icv_viol \in set_of(icv_viols) : _violations_equal(cal_viol, icv_viol, tol)

\* a variant of all_rules with a plausible fault: the rules of the ICV
\* report are left out
all_rules_calibre_only(cal, icv) == DOMAIN cal

\* set(cal_violations.keys()) | set(icv_violations.keys())
all_rules(cal, icv) == DOMAIN cal \cup DOMAIN icv

\* sorted(names) for a set of str: the least first
RECURSIVE sorted_names(_)
sorted_names(names) ==
    IF names = {} THEN <<>>
    ELSE LET least == CHOOSE a \in names : \A b \in names \ {a} : StrLess(a, b)
         IN  <<least>> \o sorted_names(names \ {least})

\* sorted(all_rules)
sorted_rules(cal, icv) == sorted_names(all_rules(cal, icv))

\* d.get(rule, [])
dict_get(d, rule) == IF rule \in DOMAIN d THEN d[rule] ELSE <<>>

\* the dict compare starts from
new_results ==
    [matching_rules |-> <<>>, mismatched_rules |-> <<>>, only_calibre |-> <<>>,
     only_icv |-> <<>>, total_calibre |-> 0, total_icv |-> 0, perfect_match |-> FALSE]

\* one turn of  for rule in sorted(all_rules)
compare_rule(res, rule, cal, icv, tol) ==
    LET cal_viols == dict_get(cal, rule)
        icv_viols == dict_get(icv, rule)
        cal_count == Len(cal_viols)
        icv_count == Len(icv_viols)
        counted == [res EXCEPT !.total_calibre = @ + cal_count,
                               !.total_icv = @ + icv_count]
    IN  IF rule \notin DOMAIN icv
        THEN [counted EXCEPT !.only_calibre =
                  Append(@, [rule |-> rule, count |-> cal_count])]
        ELSE IF rule \notin DOMAIN cal
        THEN [counted EXCEPT !.only_icv =
                  Append(@, [rule |-> rule, count |-> icv_count])]
        ELSE IF cal_count = icv_count
        THEN IF _violations_match(cal_viols, icv_viols, tol)
             THEN [counted EXCEPT !.matching_rules =
                       Append(@, [rule |-> rule, count |-> cal_count])]
             ELSE [counted EXCEPT !.mismatched_rules =
                       Append(@, [rule |-> rule, calibre_count |-> cal_count,
                                  icv_count |-> icv_count,
                                  reason |-> "locations differ"])]
        ELSE [counted EXCEPT !.mismatched_rules =
                  Append(@, [rule |-> rule, calibre_count |-> cal_count,
                             icv_count |-> icv_count, reason |-> "counts differ"])]

\* compare is entered: results and the sorted rules
CompareBegin ==
    /\ cpc = "start"
    /\ results' = new_results
    /\ todo' = sorted_rules(cal_violations, icv_violations)
    /\ cpc' = "loop"
    /\ UNCHANGED <<translator_vars, gen_vars, cal_violations, icv_violations, tolerance>>

CompareRule ==
    /\ cpc = "loop" /\ todo # <<>>
    /\ results' = compare_rule(results, Head(todo), cal_violations, icv_violations,
                               tolerance)
    /\ todo' = Tail(todo)
    /\ UNCHANGED <<translator_vars, gen_vars, cal_violations, icv_violations, tolerance, cpc>>

\* the loop is over: perfect_match, return results
CompareEnd ==
    /\ cpc = "loop" /\ todo = <<>>
    /\ results' = [results EXCEPT !.perfect_match =
                       /\ Len(results.mismatched_rules) = 0
                       /\ Len(results.only_calibre) = 0
                       /\ Len(results.only_icv) = 0]
    /\ cpc' = "done"
    /\ UNCHANGED <<translator_vars, gen_vars, cal_violations, icv_violations, tolerance, todo>>

NextDRC ==
    \/ CompareBegin
    \/ CompareRule
    \/ CompareEnd

\* --- the reports the model draws ------------------------------------------
MaxViolations == 2  \* violations of one rule in one report

\* 0.0, 0.0008 and 0.0012 on the x axis, and -0.0004 and -0.0008 at
\* y = -0.0012
Points == {<<0, 0>>, <<2, 0>>, <<3, 0>>, <<-1, -3>>, <<-2, -3>>}

\* the rule names of the reports: sorted() puts "R10" before "R2"
tR2 == Text(<<"R", "2">>)
tR10 == Text(<<"R", "1", "0">>)

ViolationLists(rule, type) ==
    { [k \in DOMAIN ps |-> Violation(rule, ps[k][1], ps[k][2], type)] :
        ps \in {<<>>} \cup SeqsUpTo(Points, MaxViolations) }

\* a report: R2 with any list of violations, R10 with one violation, each of
\* them there or not (a rule with no violation is not in a report)
Reports(type) ==
    { [r \in {n \in {tR2, tR10} : (IF n = tR2 THEN l1 ELSE l2) # <<>>}
         |-> IF r = tR2 THEN l1 ELSE l2] :
        l1 \in ViolationLists(tR2, type),
        l2 \in {<<>>, <<Violation(tR10, 0, 0, type)>>} }

\* 0.0004 (the distance of 0.0008 and 0.0012), 0.0005 and the default 0.001
Tolerances == {4, 5, 10}

\* DRCComparator(tolerance) made and compare(cal_violations, icv_violations)
\* about to run; no translator run
InitDRC ==
    /\ cal_violations \in Reports("polygon")
    /\ icv_violations \in Reports("unknown")
    /\ tolerance \in Tolerances
    /\ results = <<>>
    /\ todo = <<>>
    /\ cpc = "start"
    /\ content = None /\ lines = <<>> /\ i = 0
    /\ current_rule_name = None /\ comment = None /\ brace_count = 0
    /\ rule_lines = <<>> /\ layers = <<>> /\ rules = <<>> /\ origin = <<>>
    /\ output = <<>> /\ out_file = NoFile /\ returncode = NotReturned
    /\ args = NoFlags
    /\ pc = "idle"
    /\ output_lines = <<>>
    /\ returned = <<>>

SpecDRC == InitDRC /\ [][NextDRC]_vars

\* --- C18 ---------------------------------------------------------------------
\* both coordinates differ by less than the tolerance
WithinTolerance(v1, v2, tol) ==
    /\ 4 * Abs(v1.x - v2.x) < tol
    /\ 4 * Abs(v1.y - v2.y) < tol

\* the instances of the two lists can be paired one-to-one within the tolerance
PairedOneToOne(cal_viols, icv_viols, tol) ==
    /\ Len(cal_viols) = Len(icv_viols)
    /\ \E pairing \in [DOMAIN cal_viols -> DOMAIN icv_viols] :
           /\ \A j, k \in DOMAIN cal_viols : pairing[j] = pairing[k] => j = k
           /\ \A k \in DOMAIN cal_viols :
                  WithinTolerance(cal_viols[k], icv_viols[pairing[k]], tol)

ReportedMatching(rule) ==
    \E k \in DOMAIN results.matching_rules : results.matching_rules[k].rule = rule

\* what compare reports for the rule when the two reports are swapped
ReportedMatchingSwapped(rule) ==
    \E k \in DOMAIN compare_rule(new_results, rule, icv_violations, cal_violations,
                                 tolerance).matching_rules : TRUE

\* C18: when compare has returned, a rule of both reports is in matching_rules
\* only if its violations can be paired one-to-one within the tolerance, and
\* it is matching exactly when it is matching with the two reports swapped.
C18_MatchingMeansPaired ==
    cpc = "done" =>
        \A rule \in DOMAIN cal_violations \cap DOMAIN icv_violations :
            /\ ReportedMatching(rule) =>
                   PairedOneToOne(cal_violations[rule], icv_violations[rule], tolerance)
            /\ ReportedMatching(rule) = ReportedMatchingSwapped(rule)

\* the report pair of the divergence: two violations at (0, 0) against one at
\* (0, 0) and one at (0.0012, 0), tolerance 0.001
C18_Divergence ==
    /\ cpc = "done"
    /\ tolerance = 10
    /\ cal_violations = [r \in {tR2} |->
           <<Violation(tR2, 0, 0, "polygon"), Violation(tR2, 0, 0, "polygon")>>]
    /\ icv_violations = [r \in {tR2} |->
           <<Violation(tR2, 0, 0, "unknown"), Violation(tR2, 3, 0, "unknown")>>]
    /\ ReportedMatching(tR2)
    /\ results.perfect_match

\* --- C19 ---------------------------------------------------------------------
EntriesFor(list, rule) == Cardinality({k \in DOMAIN list : list[k].rule = rule})

\* how many of the four lists' entries name the rule
Listed(rule) ==
    EntriesFor(results.matching_rules, rule) + EntriesFor(results.mismatched_rules, rule)
    + EntriesFor(results.only_calibre, rule) + EntriesFor(results.only_icv, rule)

RECURSIVE TotalViolations(_, _)
\* the violations of the rules in names, counted over the report
TotalViolations(report, names) ==
    IF names = {} THEN 0
    ELSE LET rule == CHOOSE r \in names : TRUE
         IN  Len(report[rule]) + TotalViolations(report, names \ {rule})

\* C19: when compare has returned, every rule of either report is in exactly
\* one of the four lists, the totals are the numbers of violations of the two
\* reports, and perfect_match is true exactly when mismatched_rules,
\* only_calibre and only_icv are empty.
C19_Partition ==
    cpc = "done" =>
        /\ \A rule \in DOMAIN cal_violations \cup DOMAIN icv_violations : Listed(rule) = 1
        /\ results.total_calibre = TotalViolations(cal_violations, DOMAIN cal_violations)
        /\ results.total_icv = TotalViolations(icv_violations, DOMAIN icv_violations)
        /\ results.perfect_match =
               (/\ results.mismatched_rules = <<>>
                /\ results.only_calibre = <<>>
                /\ results.only_icv = <<>>)

\* compare has returned with R2 mismatched and R10 only in the ICV report
C19_Witness ==
    /\ cpc = "done"
    /\ Len(results.mismatched_rules) = 1
    /\ results.mismatched_rules[1].rule = tR2
    /\ Len(results.only_icv) = 1
    /\ results.only_icv[1].rule = tR10
    /\ results.total_calibre = 2
    /\ results.total_icv = 3
    /\ ~results.perfect_match

(***************************************************************************)
(* C21: parse_file is one forward pass over the lines.                     *)
(***************************************************************************)
\* at the top of a turn of the outer loop, and of the inner loop
InOuterLoop == pc = "parse" /\ i < Len(lines)
InInnerLoop == pc = "block" /\ i < Len(lines) /\ brace_count > 0

\* parse_file has returned or raised, or the input was not read
ParseFileOver == pc \in {"done", "exit", "error", "raised"}

\* the step takes the line at the index, and no other, into one statement:
\* a statement of that line alone, the head of a block, or the block that
\* is open
ConsumesOneLine ==
    /\ i' = i + 1
    /\ \/ pc = "parse" /\ pc' = "parse" /\ rule_lines' = rule_lines
       \/ pc = "parse" /\ pc' = "block" /\ rule_lines' = <<Strip(lines[i + 1])>>
       \/ pc = "block" /\ pc' = "block" /\ rule_lines' = Append(rule_lines, lines[i + 1])

\* the block that is open holds the lines from its head up to the index
BlockSpan ==
    pc = "block" =>
        /\ Len(rule_lines) >= 1 /\ Len(rule_lines) <= i
        /\ rule_lines = <<Strip(lines[i - Len(rule_lines) + 1])>>
                        \o SubSeq(lines, i - Len(rule_lines) + 2, i)

\* the turn raises (int() on a LAYER line): parse_file is over, the index
\* and the open block as they were
RaisesAtLine == pc' \in {"error", "raised"} /\ i' = i /\ rule_lines' = rule_lines

\* every turn of either loop moves the index on by one line and takes that
\* line into one statement
EveryTurnConsumes == (InOuterLoop \/ InInnerLoop) => ConsumesOneLine

\* every turn of either loop that does not raise moves the index on by one
\* line and takes that line into one statement; no other step moves the
\* index or takes a line; the lines stay as they were split
ForwardStep ==
    /\ (InOuterLoop \/ InInnerLoop) => ConsumesOneLine \/ RaisesAtLine
    /\ ~(InOuterLoop \/ InInnerLoop) => i' = i /\ rule_lines' = rule_lines
    /\ pc # "read" => lines' = lines

\* C21 as it is stated: parse_file ends on every input, the index moves on
\* by one line in every turn of the outer and of the inner loop and never
\* back, and when parse_file is over, however it ended, every line has been
\* taken into exactly one statement.
C21_EveryLineConsumedOnce ==
    /\ <>ParseFileOver
    /\ [][ForwardStep /\ EveryTurnConsumes]_vars
    /\ [](i <= Len(lines) /\ BlockSpan)
    /\ [](ParseFileOver => i = Len(lines))

\* C21, amended: parse_file ends on every input, by returning or by raising;
\* the index moves on by one line in every turn of the outer and of the inner
\* loop that does not raise, and never back, so no line is taken into two
\* statements; and when parse_file returns, every line has been taken into
\* exactly one statement (after a raise the lines from the statement that
\* raised on are taken into none).
C21_ForwardPass ==
    /\ <>ParseFileOver
    /\ [][ForwardStep]_vars
    /\ [](i <= Len(lines) /\ BlockSpan)
    /\ [](pc \in {"done", "exit"} => i = Len(lines))

\* the run over  }  and  U {  has ended: a line of no statement shape with a
\* closing brace in excess, then a block that is never closed
C21_Witness ==
    /\ pc = "exit"
    /\ lines = <<tClose, Words(<<Text(<<"U">>), tOpen>>)>>
    /\ i = 2
    /\ rule_lines = <<Words(<<Text(<<"U">>), tOpen>>)>>
    /\ brace_count = 1
    /\ rules = <<>>

=============================================================================
